---------------------------- MODULE Spec2Model ----------------------------
(***************************************************************************)
(* Font creator of cnc-gcode-tools: stroke simplification, arc detection,  *)
(* kerning and the text layout shared by the exporters                     *)
(* (FontCreatorController).                                                *)
(*                                                                         *)
(* Numbers.  The program computes with IEEE doubles.  Here canvas points   *)
(* have integer coordinates and a tolerance is an exact fraction           *)
(* <<num, den>>.  A distance that the code obtains with Math.sqrt and only *)
(* compares is kept as the exact fraction of its square.  Where two such   *)
(* values are exactly equal, the doubles the code compares may differ in   *)
(* the last bit; the variable "rounding" fixes, for one stroke, which way  *)
(* those comparisons come out, and every combination is explored.          *)
(* Sequences are 1-based: index k of the code is index k + 1 here.         *)
(***************************************************************************)
EXTENDS Integers, Sequences, FiniteSets, TLC

VARIABLES
    currentStroke,   \* simplify: the raw stroke handed to simplifyPath
    rounding,        \* simplify: how double rounding resolves exact ties for this stroke
    simplified,      \* simplify: tolerance -> simplifyPath(currentStroke, tolerance), once computed
    stroke,          \* arcs: the glyph stroke handed to detectArcs
    arcTolerance,    \* arcs: value of the arc-tolerance input, a fraction <<num, den>>
    residue,         \* arcs: rounding residue of fitCircle's sums for this stroke
    pc,              \* arcs: position of detectArcs: "idle", "loop" or "done"
    i,               \* arcs: detectArcs' scan index (0-based, as in the code)
    segments,        \* arcs: detectArcs' result so far
    covered,         \* arcs (ghost): for each segment the stroke indices [from, to] it was built from
    iterations,      \* arcs (ghost): loop iterations of detectArcs so far
    examined,        \* arcs (ghost): candidate end indices the last fitArc call examined
    fit,             \* arcs: result of a direct fitCircle call on a prefix of the stroke
    kerning,         \* kerning: this.kerning, the ordered list of rules
    kernQuery,       \* kerning: the last getKerningAdjustment call and its result
    storedKerning,   \* kerning: the kerning list of the current font in localStorage
    text,            \* layout: value of the text-input field, a sequence of characters
    font,            \* layout: this.font, character -> glyph record
    options,         \* layout: the numeric and checkbox fields the exporters read
    layoutRounding,  \* layout: how double rounding resolves exact ties of the size comparisons
    placement,       \* layout: exporter -> the glyph placement its last run computed
    machining,       \* gcode: the feed-rate, plunge-rate, safe-z and engrave-depth fields
    generatedGCode,  \* gcode: this.generatedGCode, the lines of the program
    downloads,       \* export: the names of the files handed to the browser for download
    currentChar,     \* editor: this.currentChar, "" for null
    strokes,         \* editor: this.strokes, the working strokes of the current character
    history,         \* editor: this.history, snapshots of the working strokes
    historyIndex,    \* editor: this.historyIndex (0-based, -1 when the history is empty)
    isDrawing,       \* editor: this.isDrawing
    drag,            \* editor: isDraggingLine, dragLineType, dragStartX, dragLineStartValue
    events,          \* editor: the number of events handled so far
    statusPanel,     \* status: style.display of the status panel, "none" or "block"
    isRunning,       \* status: this.isRunning of the FluidNC controller
    runningFilePath, \* status: this.runningFilePath, <<>> for null
    statusFields,    \* status: the texts of the machine state, progress and pause button
    runPc,           \* status: position of runSDFile: "idle" or "awaiting"
    listeners,       \* canvas: event type -> number of handlers setupCanvas has registered
    resizeTimeouts   \* canvas: number of resize handlers whose timeout is pending

simplifyVars == <<currentStroke, rounding, simplified>>
arcVars == <<stroke, arcTolerance, residue, pc, i, segments, covered, iterations, examined, fit>>
kernVars == <<kerning, kernQuery, storedKerning>>
layoutVars == <<text, font, options, layoutRounding, placement, machining, generatedGCode,
                downloads>>
editorVars == <<currentChar, strokes, history, historyIndex, isDrawing, drag, events>>
statusVars == <<statusPanel, isRunning, runningFilePath, statusFields, runPc>>
listenerVars == <<listeners, resizeTimeouts>>
vars == <<currentStroke, rounding, simplified,
          stroke, arcTolerance, residue, pc, i, segments, covered, iterations, examined, fit,
          kerning, kernQuery, storedKerning,
          text, font, options, layoutRounding, placement, machining, generatedGCode, downloads,
          currentChar, strokes, history, historyIndex, isDrawing, drag, events,
          statusPanel, isRunning, runningFilePath, statusFields, runPc,
          listeners, resizeTimeouts>>

Pt(a, b) == [x |-> a, y |-> b]

Abs(v) == IF v < 0 THEN -v ELSE v
Min(a, b) == IF a < b THEN a ELSE b
Max(a, b) == IF a > b THEN a ELSE b

\* A part of the program that a specification does not exercise stays idle.
NoCircle == [fit |-> FALSE, cx |-> 0, cy |-> 0, r |-> 0]
NoResidue == [nonzero |-> FALSE, cx |-> 0, cy |-> 0]

SimplifyIdle ==
    /\ currentStroke = <<>>
    /\ rounding = [zeroNoise |-> FALSE, tieLater |-> FALSE, tolTieUp |-> FALSE]
    /\ simplified = [e \in {} |-> <<>>]

ArcsIdle ==
    /\ stroke = <<>>
    /\ arcTolerance = <<1, 2>>
    /\ residue = NoResidue
    /\ pc = "idle"
    /\ i = 0
    /\ segments = <<>>
    /\ covered = <<>>
    /\ iterations = 0
    /\ examined = 0
    /\ fit = [count |-> -1, circle |-> NoCircle]

NoQuery == [char1 |-> <<>>, char2 |-> <<>>, adjustment |-> 0]

KerningIdle ==
    /\ kerning = <<>>
    /\ kernQuery = NoQuery
    /\ storedKerning = <<>>

Exporters == {"generateGCode", "exportImage", "exportSVG", "exportDXF"}

NoPlacement == [outputSize |-> 0, wrappedLines |-> <<>>, startX |-> 0,
                origins |-> <<>>, endX |-> <<>>, advances |-> <<>>]

NoMachining == [feedRate |-> 0, plungeRate |-> 0, safeZ |-> 0, engraveDepth |-> 0,
                fixedTieUp |-> FALSE]

LayoutIdle ==
    /\ text = <<>>
    /\ font = [c \in {} |-> 0]
    /\ options = [outputSize |-> 0, charSpacing |-> 0, spaceWidth |-> 0, lineGap |-> 0,
                  maxWidth |-> 0, maxHeight |-> 0, autoFit |-> FALSE, maxTextSize |-> 0]
    /\ layoutRounding = [wrapTieOver |-> FALSE, fitTieOver |-> FALSE]
    /\ placement = [e \in Exporters |-> NoPlacement]
    /\ machining = NoMachining
    /\ generatedGCode = <<>>
    /\ downloads = {}

NoChar == ""

NoDrag == [isDraggingLine |-> FALSE, dragLineType |-> "null",
           dragStartX |-> 0, dragLineStartValue |-> 0]

EditorIdle ==
    /\ currentChar = NoChar
    /\ strokes = <<>>
    /\ history = <<>>
    /\ historyIndex = -1
    /\ isDrawing = FALSE
    /\ drag = NoDrag
    /\ events = 0

NoPath == <<>>

\* The FluidNC controller after its constructor; the panel is not shown.
StatusIdle ==
    /\ statusPanel = "none"
    /\ isRunning = FALSE
    /\ runningFilePath = NoPath
    /\ statusFields = [machineState |-> "", progress |-> <<>>, pauseBtn |-> "Pause"]
    /\ runPc = "idle"

\* The events setupCanvas registers a handler for.
CanvasEvents == {"mousedown", "mousemove", "mouseup", "mouseleave",
                 "touchstart", "touchmove", "touchend"}

\* The page after DOMContentLoaded: setupCanvas has run once.
ListenersIdle ==
    /\ listeners = [e \in CanvasEvents \cup {"resize"} |-> 1]
    /\ resizeTimeouts = 0

(***************************************************************************)
(* Bounds of the model.                                                    *)
(***************************************************************************)
MaxPts == 4

\* Canvas points a pointer gesture can sample: three collinear horizontal
\* points, a diagonal, and points off both lines.
Palette == {Pt(0, 0), Pt(1, 0), Pt(2, 0), Pt(1, 1), Pt(2, 2), Pt(0, 3)}

\* Simplify tolerances (fractions of a canvas unit): 0, 1/2, 1, 2.
Tolerances == {<<0, 1>>, <<1, 2>>, <<1, 1>>, <<2, 1>>}

AllStrokes(S, n) == UNION {[1..k -> S] : k \in 1..n}

(***************************************************************************)
(* StrokeSimplifier.                                                       *)
(***************************************************************************)
\* Outcomes of double rounding at exact ties:
\*   zeroNoise  a projected distance that is exactly 0 comes out as a tiny
\*              positive double (below every positive tolerance);
\*   tieLater   of two exactly equal distances the later one compares greater;
\*   tolTieUp   a distance exactly equal to a positive tolerance compares greater.
Roundings == [zeroNoise : BOOLEAN, tieLater : BOOLEAN, tolTieUp : BOOLEAN]

IsPow2(n) == n \in {1, 2, 4, 8, 16}

\* calculateDistanceToLine: the SQUARE of the returned distance, as the exact
\* fraction n / d (|p - closest|^2 = cross^2 / mag^2 for mag > 0).  "exact"
\* says that the double the code returns is the true value: mag = 0 (a plain
\* point distance), point = lineStart (u = 0), or an axis-parallel chord whose
\* length is a power of two (u and the closest point are computed exactly).
calculateDistanceToLine(point, lineStart, lineEnd) ==
    LET dx == lineEnd.x - lineStart.x
        dy == lineEnd.y - lineStart.y
        mag2 == dx * dx + dy * dy
        cross == (point.x - lineStart.x) * dy - (point.y - lineStart.y) * dx
    IN  IF mag2 = 0
        THEN [n |-> (point.x - lineStart.x) * (point.x - lineStart.x)
                    + (point.y - lineStart.y) * (point.y - lineStart.y),
              d |-> 1, exact |-> TRUE]
        ELSE [n |-> cross * cross, d |-> mag2,
              exact |-> \/ point = lineStart
                        \/ (dy = 0 /\ IsPow2(Abs(dx)))
                        \/ (dx = 0 /\ IsPow2(Abs(dy)))]

\* dist > maxDist
DistGreater(a, b) ==
    IF a.n * b.d # b.n * a.d THEN a.n * b.d > b.n * a.d
    ELSE IF a.exact /\ b.exact THEN FALSE
    ELSE IF a.n = 0
         THEN /\ ~a.exact
              /\ rounding.zeroNoise
              /\ (b.exact \/ rounding.tieLater)
         ELSE rounding.tieLater

\* maxDist > tolerance, for a tolerance fraction >= 0
ExceedsTolerance(d2, tol) ==
    IF d2.n * tol[2] * tol[2] # tol[1] * tol[1] * d2.d
    THEN d2.n * tol[2] * tol[2] > tol[1] * tol[1] * d2.d
    ELSE IF d2.exact THEN FALSE
    ELSE IF tol[1] = 0 THEN rounding.zeroNoise
    ELSE rounding.tolTieUp

\* The scan "for (i = 1; i < points.length - 1; i++) if (dist > maxDist) ..."
\* of douglasPeucker: k is the 1-based index, best = [maxDist, maxIndex].
RECURSIVE MaxDistScan(_, _, _)
MaxDistScan(points, k, best) ==
    IF k > Len(points) - 1 THEN best
    ELSE LET dist == calculateDistanceToLine(points[k], points[1], points[Len(points)])
         IN  IF DistGreater(dist, best.maxDist)
             THEN MaxDistScan(points, k + 1, [maxDist |-> dist, maxIndex |-> k])
             ELSE MaxDistScan(points, k + 1, best)

\* Mutant of DropLast: the split point is kept in both halves.
DropLastKeepsSplit(s) == s

\* left.slice(0, -1)
DropLast(s) == SubSeq(s, 1, Len(s) - 1)

\* Mutant of Collapse: the chord ends one point early.
CollapseOffByOne(points) == <<points[1], points[Len(points) - 1]>>

\* return [start, end]
Collapse(points) == <<points[1], points[Len(points)]>>

RECURSIVE douglasPeucker(_, _)
douglasPeucker(points, tolerance) ==
    IF Len(points) < 3 THEN points
    ELSE LET m == MaxDistScan(points, 2, [maxDist |-> [n |-> 0, d |-> 1, exact |-> TRUE], maxIndex |-> 1])
         IN  IF ExceedsTolerance(m.maxDist, tolerance)
             THEN LET left == douglasPeucker(SubSeq(points, 1, m.maxIndex), tolerance)
                      right == douglasPeucker(SubSeq(points, m.maxIndex, Len(points)), tolerance)
                  IN  DropLast(left) \o right
             ELSE Collapse(points)

\* Mutant of simplifyPath: "tolerance || 2", a zero tolerance read as unset.
simplifyPathFalsyTolerance(points, tolerance) ==
    IF Len(points) < 3 THEN points
    ELSE douglasPeucker(points, IF tolerance[1] = 0 THEN <<2, 1>> ELSE tolerance)

simplifyPath(points, tolerance) ==
    IF Len(points) < 3 THEN points ELSE douglasPeucker(points, tolerance)

(***************************************************************************)
(* Specification SpecSimplify: a stroke is drawn from the palette and      *)
(* simplifyPath is applied to it with each tolerance.                      *)
(***************************************************************************)
InitSimplify ==
    /\ currentStroke \in AllStrokes(Palette, MaxPts)
    /\ StatusIdle
    /\ ListenersIdle
    /\ rounding \in Roundings
    /\ simplified = [e \in {} |-> <<>>]
    /\ ArcsIdle
    /\ KerningIdle
    /\ LayoutIdle
    /\ EditorIdle

SimplifyStroke(e) ==
    /\ e \notin DOMAIN simplified
    /\ simplified' = [t \in DOMAIN simplified \cup {e} |->
                         IF t = e THEN simplifyPath(currentStroke, e) ELSE simplified[t]]
    /\ UNCHANGED <<currentStroke, rounding>>
    /\ UNCHANGED <<arcVars, kernVars, layoutVars, editorVars, statusVars, listenerVars>>

NextSimplify == \E e \in Tolerances : SimplifyStroke(e)

SpecSimplify == InitSimplify /\ [][NextSimplify]_vars

Zero == <<0, 1>>

\* e1 < e2 for two tolerance fractions
TolLess(e1, e2) == e1[1] * e2[2] < e2[1] * e1[2]

\* p, q, r lie on one line (coincident points included)
Collinear3(p, q, r) == (q.x - p.x) * (r.y - p.y) - (q.y - p.y) * (r.x - p.x) = 0

NoThreeConsecutiveCollinear(S) ==
    \A k \in 1..(Len(S) - 2) : ~Collinear3(S[k], S[k + 1], S[k + 2])

InteriorAtStart(S) == \A k \in 2..(Len(S) - 1) : S[k] = S[1]

RECURSIVE IsSubseq(_, _)
IsSubseq(a, b) ==
    IF a = <<>> THEN TRUE
    ELSE IF b = <<>> THEN FALSE
    ELSE IF Head(a) = Head(b) THEN IsSubseq(Tail(a), Tail(b))
    ELSE IsSubseq(a, Tail(b))

\* C3 as stated: simplifying with tolerance 0 returns every stroke unchanged,
\* strokes with exactly collinear interior points included.
C3_ZeroToleranceIdentity ==
    Zero \in DOMAIN simplified => simplified[Zero] = currentStroke

\* C3 amended: with tolerance 0 a stroke in which no three consecutive points
\* are collinear is returned unchanged, whereas a stroke of 3 or more points
\* whose interior points all coincide with its first point is collapsed to
\* its two end points.
C3_ZeroToleranceKeepsBentStrokes ==
    Zero \in DOMAIN simplified =>
        /\ NoThreeConsecutiveCollinear(currentStroke) => simplified[Zero] = currentStroke
        /\ (Len(currentStroke) >= 3 /\ InteriorAtStart(currentStroke)) =>
               simplified[Zero] = <<currentStroke[1], currentStroke[Len(currentStroke)]>>

C3_Witness ==
    /\ Zero \in DOMAIN simplified
    /\ Len(currentStroke) >= 4
    /\ NoThreeConsecutiveCollinear(currentStroke)
    /\ simplified[Zero] = currentStroke

\* C4: for tolerances e1 < e2 the output for e2 has no more points than the
\* output for e1.
C4_MonotonicReduction ==
    \A e1, e2 \in Tolerances :
        (TolLess(e1, e2) /\ e1 \in DOMAIN simplified /\ e2 \in DOMAIN simplified) =>
            Len(simplified[e2]) <= Len(simplified[e1])

C4_Witness ==
    \E e1, e2 \in Tolerances :
        /\ TolLess(e1, e2)
        /\ e1 \in DOMAIN simplified /\ e2 \in DOMAIN simplified
        /\ Len(simplified[e2]) < Len(simplified[e1])
        /\ Len(simplified[e2]) > 2

\* C5: for a non-empty stroke and any tolerance >= 0 the output is an
\* order-preserving subsequence of the input with the same first and last
\* point and no more points; fewer than 3 points are returned unchanged.
C5_SubsequenceWithEndpoints ==
    \A e \in Tolerances :
        e \in DOMAIN simplified =>
            LET out == simplified[e] IN
            /\ Len(out) >= 1
            /\ Len(out) <= Len(currentStroke)
            /\ IsSubseq(out, currentStroke)
            /\ out[1] = currentStroke[1]
            /\ out[Len(out)] = currentStroke[Len(currentStroke)]
            /\ Len(currentStroke) < 3 => out = currentStroke

C5_Witness ==
    \E e \in Tolerances :
        /\ e \in DOMAIN simplified
        /\ Len(currentStroke) >= 4
        /\ Len(simplified[e]) = 3

(***************************************************************************)
(* ArcSegmenter: isCollinear, fitCircle, fitArc, isClockwise, detectArcs.  *)
(*                                                                         *)
(* Numbers.  Comparisons of isCollinear are evaluated exactly on the       *)
(* squares.  The fitted centre, the radius and every distance from the     *)
(* centre are fixed-point numbers in hundredths of a canvas unit (Scale),  *)
(* angles are in thousandths of a radian, quotients are truncated.  The    *)
(* sums of fitCircle are exact for whole-number coordinates.  The stored   *)
(* coordinates are the pointer position minus the glyph's xOffset          *)
(* (getCanvasCoords), which is a fraction for most advance widths; the     *)
(* doubles then round, and a determinant that is exactly 0 can come out as *)
(* a non-zero residue.  "stroke" holds the coordinates up to that common   *)
(* offset, and "residue" fixes, for one stroke, whether the sums round and *)
(* which centre the residues then give.                                    *)
(***************************************************************************)
Scale == 10 * 10

\* Math.PI, in thousandths of a radian
PI == 3142

\* fitArc looks at most this many points ahead of startIdx
LookAhead == 20

\* Each value that is used more than once is bound once, as the element of a
\* one-element set.
RECURSIVE SumTo(_, _)
SumTo(f, k) == IF k = 0 THEN 0 ELSE f[k] + SumTo(f, k - 1)

SumSeq(s) == CHOOSE total \in {SumTo(f, Len(f)) : f \in {s}} : TRUE

\* Math.sqrt, truncated: the largest r with r * r <= n
RECURSIVE SqrtSearch(_, _, _)
SqrtSearch(n, lo, hi) ==
    IF lo >= hi THEN lo
    ELSE CHOOSE r \in {IF mid * mid <= n THEN SqrtSearch(n, mid, hi)
                       ELSE SqrtSearch(n, lo, mid - 1) : mid \in {(lo + hi + 1) \div 2}} : TRUE

Sqrt(n) == CHOOSE r \in {SqrtSearch(v, 0, Min(v, 46340)) : v \in {n}} : TRUE

\* num / den in hundredths; a quotient beyond +-100 units is cut off there
\* (such a centre is more than 50 units from every point of the canvas
\* palette, so the radius guard rejects the circle either way).
FixDiv(num, den) ==
    LET nn == IF den < 0 THEN -num ELSE num
        dd == Abs(den)
        q == nn \div dd
        rem == nn % dd
    IN  IF q > 100 THEN 100 * Scale
        ELSE IF q < -100 THEN -100 * Scale
        ELSE q * Scale + (rem * Scale) \div dd

\* atan(t / 1000) for 0 <= t <= 1000, in thousandths of a radian
AtanUnit(t) == (t * (785 + (273 * (1000 - t)) \div 1000)) \div 1000

\* Math.atan2(y, x)
Atan2(y, x) ==
    IF x = 0 /\ y = 0 THEN 0
    ELSE LET ax == Abs(x)
             ay == Abs(y)
             a == IF ax >= ay THEN AtanUnit((ay * 1000) \div ax)
                  ELSE 1571 - AtanUnit((ax * 1000) \div ay)
         IN  IF x >= 0 THEN (IF y >= 0 THEN a ELSE -a)
             ELSE (IF y >= 0 THEN PI - a ELSE a - PI)

\* while (a > Math.PI) a -= 2 * Math.PI; while (a < -Math.PI) a += 2 * Math.PI
\* for a difference of two atan2 values
NormalizeAngle(a) ==
    IF a > PI THEN a - 2 * PI
    ELSE IF a < -PI THEN a + 2 * PI
    ELSE a

\* Math.sqrt((pt.x - cx) ** 2 + (pt.y - cy) ** 2), in hundredths
DistToCentre(pt, cx, cy) ==
    Sqrt((pt.x * Scale - cx) * (pt.x * Scale - cx) + (pt.y * Scale - cy) * (pt.y * Scale - cy))

\* isCollinear(points, tolerance)
isCollinear(points, tolerance) ==
    IF Len(points) < 3 THEN TRUE
    ELSE LET start == points[1]
             end == points[Len(points)]
             dx == end.x - start.x
             dy == end.y - start.y
             len2 == dx * dx + dy * dy
             TooFar(pt) ==
                 LET c == dy * pt.x - dx * pt.y + end.x * start.y - end.y * start.x
                 IN  c * c * tolerance[2] * tolerance[2] > tolerance[1] * tolerance[1] * len2
             Corner(k) ==
                 LET dx1 == points[k + 1].x - points[k].x
                     dy1 == points[k + 1].y - points[k].y
                     dx2 == points[k + 2].x - points[k + 1].x
                     dy2 == points[k + 2].y - points[k + 1].y
                     l1 == dx1 * dx1 + dy1 * dy1
                     l2 == dx2 * dx2 + dy2 * dy2
                     dot == dx1 * dx2 + dy1 * dy2
                 IN  /\ ~(l1 * 100 < 1 \/ l2 * 100 < 1)
                     /\ dot * dot * 400 < 361 * l1 * l2
         IN  IF len2 * 100 < 1 THEN TRUE
             ELSE IF \E k \in 2..(Len(points) - 1) : TooFar(points[k]) THEN FALSE
             ELSE IF \E k \in 1..(Len(points) - 2) : Corner(k) THEN FALSE
             ELSE TRUE

\* All points are one and the same point.
OnePoint(points) == \A k \in 1..Len(points) : points[k] = points[1]

\* Math.abs(denominator) < 1e-10: den is the exact determinant; for whole
\* numbers the double is exact, otherwise an exact 0 may come out as a
\* residue of magnitude >= 1e-10 unless the points do not spread at all.
Degenerate(den, points) ==
    den = 0 /\ (~residue.nonzero \/ OnePoint(points))

\* The sums of fitCircle's first loop.
CircleSums(points) ==
    LET n == Len(points)
    IN  [n |-> n,
         sumX |-> SumSeq([k \in 1..n |-> points[k].x]),
         sumY |-> SumSeq([k \in 1..n |-> points[k].y]),
         sumX2 |-> SumSeq([k \in 1..n |-> points[k].x * points[k].x]),
         sumY2 |-> SumSeq([k \in 1..n |-> points[k].y * points[k].y]),
         sumXY |-> SumSeq([k \in 1..n |-> points[k].x * points[k].y]),
         sumX3 |-> SumSeq([k \in 1..n |-> points[k].x * points[k].x * points[k].x]),
         sumY3 |-> SumSeq([k \in 1..n |-> points[k].y * points[k].y * points[k].y]),
         sumX2Y |-> SumSeq([k \in 1..n |-> points[k].x * points[k].x * points[k].y]),
         sumXY2 |-> SumSeq([k \in 1..n |-> points[k].x * points[k].y * points[k].y])]

\* A, B, C, D, E, the determinant and the centre (D2 = 2 * D, E2 = 2 * E).
CircleCentre(m) ==
    LET A == m.n * m.sumX2 - m.sumX * m.sumX
        B == m.n * m.sumXY - m.sumX * m.sumY
        C == m.n * m.sumY2 - m.sumY * m.sumY
        D2 == m.n * m.sumXY2 - m.sumX * m.sumY2 + m.n * m.sumX3 - m.sumX * m.sumX2
        E2 == m.n * m.sumY3 - m.sumY * m.sumY2 + m.n * m.sumX2Y - m.sumY * m.sumX2
        denominator == A * C - B * B
    IN  [denominator |-> denominator,
         cx |-> IF denominator = 0 THEN residue.cx
                ELSE FixDiv(D2 * C - B * E2, 2 * denominator),
         cy |-> IF denominator = 0 THEN residue.cy
                ELSE FixDiv(A * E2 - B * D2, 2 * denominator)]

\* r = sumR / n, the average distance from the centre
MeanRadius(points, c) ==
    SumSeq([k \in 1..Len(points) |-> DistToCentre(points[k], c.cx, c.cy)]) \div Len(points)

\* fitCircle(points)
fitCircle(points) ==
    IF Len(points) < 3 THEN NoCircle
    ELSE CHOOSE circle \in
             {IF Degenerate(c.denominator, points) THEN NoCircle
              ELSE [fit |-> TRUE, cx |-> c.cx, cy |-> c.cy, r |-> MeanRadius(points, c)] :
                  c \in {CircleCentre(m) : m \in {CircleSums(points)}}} : TRUE

\* circle.r < 0.5 || circle.r > 50
RadiusOutOfRange(r) == r * 2 < Scale \/ r > 50 * Scale

\* error > arcTolerance for some point
SomeErrorExceeds(points, circle) ==
    \E k \in 1..Len(points) :
        Abs(DistToCentre(points[k], circle.cx, circle.cy) - circle.r) * arcTolerance[2]
            > arcTolerance[1] * Scale

\* angleEnd - angleStart, normalized to [-PI, PI]
ArcAngle(startPt, endPt, cx, cy) ==
    NormalizeAngle(Atan2(endPt.y * Scale - cy, endPt.x * Scale - cx)
                   - Atan2(startPt.y * Scale - cy, startPt.x * Scale - cx))

\* arcAngleDeg, in hundredths of a degree
ArcAngleDeg(arcAngle) == (Abs(arcAngle) * 18000) \div PI

\* arcAngleDeg < 20
SpanTooSmall(arcAngle) == ArcAngleDeg(arcAngle) < 2000

\* chordLength, in hundredths
ChordLength(startPt, endPt) ==
    Sqrt(((endPt.x - startPt.x) * (endPt.x - startPt.x)
          + (endPt.y - startPt.y) * (endPt.y - startPt.y)) * Scale * Scale)

\* arcLength = circle.r * Math.abs(arcAngle), in 1/100000 of a unit
ArcLength(r, arcAngle) == r * Abs(arcAngle)

\* Mutant of RatioTooSmall: the arc is only required to be longer than its chord.
RatioBelowOne(arcLength, chordLength) ==
    chordLength = 0 \/ arcLength < 1000 * chordLength

\* arcToChordRatio < 1.05, where the ratio is 0 for a chord of length 0
RatioTooSmall(arcLength, chordLength) ==
    chordLength = 0 \/ arcLength < 1050 * chordLength

\* isClockwise(points, circle)
isClockwise(points, circle) ==
    IF Len(points) < 2 THEN FALSE
    ELSE LET mid == points[(Len(points) \div 2) + 1]
         IN  ArcAngle(points[1], mid, circle.cx, circle.cy) < 0

NoArc == [found |-> FALSE, endIndex |-> -1, center |-> Pt(0, 0), radius |-> 0,
          clockwise |-> FALSE]

\* fitArc's loop body after a circle was fitted: NoArc where the code says
\* "continue".
CandidateOnCircle(points, endIdx, circle) ==
    IF ~circle.fit THEN NoArc
    ELSE IF RadiusOutOfRange(circle.r) THEN NoArc
    ELSE IF SomeErrorExceeds(points, circle) THEN NoArc
    ELSE LET arcAngle == ArcAngle(points[1], points[Len(points)], circle.cx, circle.cy)
         IN  IF SpanTooSmall(arcAngle) THEN NoArc
             ELSE IF RatioTooSmall(ArcLength(circle.r, arcAngle),
                                   ChordLength(points[1], points[Len(points)]))
                  THEN NoArc
             ELSE [found |-> TRUE, endIndex |-> endIdx,
                   center |-> Pt(circle.cx, circle.cy), radius |-> circle.r,
                   clockwise |-> isClockwise(points, circle)]

\* One pass of fitArc's loop body for the candidate slice "points" ending at
\* endIdx.
TryCandidate(points, endIdx) ==
    IF isCollinear(points, arcTolerance) THEN NoArc
    ELSE CHOOSE arc \in {CandidateOnCircle(points, endIdx, circle) :
                             circle \in {fitCircle(points)}} : TRUE

\* Mutant of maxPoints: the look-ahead window is the whole rest of the stroke.
maxPointsWholeStroke(s, startIdx) == Len(s)

\* const maxPoints = Math.min(startIdx + 20, stroke.length)
maxPoints(s, startIdx) == Min(startIdx + LookAhead, Len(s))

\* "for (let endIdx = maxPoints - 1; endIdx > startIdx + 2; endIdx--)" from
\* endIdx on; count is the number of candidates examined before.  The result
\* carries the number of candidates examined in all.
RECURSIVE fitArcFrom(_, _, _, _)
fitArcFrom(s, startIdx, endIdx, count) ==
    IF ~(endIdx > startIdx + 2) THEN [arc |-> NoArc, examined |-> count]
    ELSE CHOOSE res \in
             {IF arc.found THEN [arc |-> arc, examined |-> count + 1]
              ELSE fitArcFrom(s, startIdx, endIdx - 1, count + 1) :
                  arc \in {TryCandidate(points, endIdx) :
                               points \in {SubSeq(s, startIdx + 1, endIdx + 1)}}} : TRUE

\* fitArc(stroke, startIdx); indices are 0-based, as in the code
fitArc(s, startIdx) == fitArcFrom(s, startIdx, maxPoints(s, startIdx) - 1, 0)

\* Mutant of Slice: the slice leaves out the element at "from".
SliceAfterFrom(s, from, to) == SubSeq(s, from + 2, Min(to, Len(s)))

\* stroke.slice(from, to), 0-based and "to" excluded
Slice(s, from, to) == SubSeq(s, from + 1, Min(to, Len(s)))

LineSegment(points) == [type |-> "line", points |-> points]

ArcSegment(startPt, endPt, arc) ==
    [type |-> "arc", start |-> startPt, end |-> endPt, center |-> arc.center,
     radius |-> arc.radius, clockwise |-> arc.clockwise]

\* arcResult && arcResult.endIndex - i >= 3
ArcLongEnough(arc, startIdx) == arc.found /\ arc.endIndex - startIdx >= 3

(***************************************************************************)
(* Specification SpecArcs: detectArcs runs over a stroke, one loop         *)
(* iteration per step; fitCircle is also called directly on prefixes of    *)
(* the stroke.                                                             *)
(***************************************************************************)
\* detectArcs, up to the loop: a stroke of fewer than 5 points is one Line.
DetectArcsEnter ==
    /\ pc = "idle"
    /\ IF Len(stroke) < 5
       THEN /\ segments' = <<LineSegment(stroke)>>
            /\ covered' = <<[from |-> 0, to |-> Len(stroke) - 1]>>
            /\ pc' = "done"
       ELSE /\ segments' = <<>>
            /\ covered' = <<>>
            /\ pc' = "loop"
    /\ i' = 0
    /\ UNCHANGED <<stroke, arcTolerance, residue, iterations, examined, fit>>
    /\ UNCHANGED <<simplifyVars, kernVars, layoutVars, editorVars, statusVars, listenerVars>>

\* One iteration of "while (i < stroke.length)".
DetectArcsIterate ==
    /\ pc = "loop"
    /\ i < Len(stroke)
    /\ \E res \in {fitArc(stroke, i)} :
       LET arcResult == res.arc
           lineEnd == Min(i + 1, Len(stroke) - 1)
       IN  /\ examined' = res.examined
           /\ IF ArcLongEnough(arcResult, i)
              THEN /\ segments' = Append(segments,
                           ArcSegment(stroke[i + 1], stroke[arcResult.endIndex + 1], arcResult))
                   /\ covered' = Append(covered, [from |-> i, to |-> arcResult.endIndex])
                   /\ i' = arcResult.endIndex
              ELSE /\ segments' = Append(segments, LineSegment(Slice(stroke, i, lineEnd + 1)))
                   /\ covered' = Append(covered, [from |-> i, to |-> lineEnd])
                   /\ i' = IF i = lineEnd THEN i + 1 ELSE lineEnd
    /\ iterations' = iterations + 1
    /\ UNCHANGED <<stroke, arcTolerance, residue, pc, fit>>
    /\ UNCHANGED <<simplifyVars, kernVars, layoutVars, editorVars, statusVars, listenerVars>>

\* The loop condition fails: return segments.
DetectArcsReturn ==
    /\ pc = "loop"
    /\ ~(i < Len(stroke))
    /\ pc' = "done"
    /\ UNCHANGED <<stroke, arcTolerance, residue, i, segments, covered, iterations, examined, fit>>
    /\ UNCHANGED <<simplifyVars, kernVars, layoutVars, editorVars, statusVars, listenerVars>>

\* fitCircle(points) called on the first count points of the stroke.
FitCircleCall(count) ==
    /\ pc = "done"
    /\ fit.count = -1
    /\ fit' = [count |-> count, circle |-> fitCircle(SubSeq(stroke, 1, count))]
    /\ UNCHANGED <<stroke, arcTolerance, residue, pc, i, segments, covered, iterations, examined>>
    /\ UNCHANGED <<simplifyVars, kernVars, layoutVars, editorVars, statusVars, listenerVars>>

\* Bounds of SpecArcs: the longest stroke over the arc palette, and the
\* longest walk around the circle or along the line.
MaxArcPts == 5
MaxWalk == 21

\* Points at distance sqrt(5) from (2, 2), in walking order.
CirclePts == <<Pt(4, 3), Pt(3, 4), Pt(1, 4), Pt(0, 3), Pt(0, 1), Pt(1, 0), Pt(3, 0), Pt(4, 1)>>

\* Three points of the upper half of that circle and a point inside it.
ArcPalette == {Pt(4, 3), Pt(2, 4), Pt(1, 4), Pt(0, 3)}

\* Two shallow bows: circles of radius about 51.6 and 41.6 fit them.
FlatStrokes == {<<Pt(0, 0), Pt(7, 1), Pt(10, 1), Pt(14, 1), Pt(21, 0)>>,
                <<Pt(0, 0), Pt(6, 1), Pt(10, 1), Pt(13, 1), Pt(19, 0)>>}

\* n points around the circle from CirclePts[first], counter-clockwise
\* (dir = 1) or clockwise (dir = 7)
CircleWalk(first, dir, n) == [k \in 1..n |-> CirclePts[((first - 1 + (k - 1) * dir) % 8) + 1]]

\* n points back and forth on the line y = 2x
LineWalk(n) == [k \in 1..n |-> Pt(k % 3, 2 * (k % 3))]

ArcStrokes ==
    AllStrokes(ArcPalette, MaxArcPts)
    \cup {CircleWalk(first, dir, n) : first \in 1..8, dir \in {1, 7}, n \in 5..MaxWalk}
    \cup {LineWalk(n) : n \in 1..MaxWalk}
    \cup FlatStrokes

\* Arc tolerances (fractions of a canvas unit): 1/4, 1/2.
ArcTolerances == {<<1, 4>>, <<1, 2>>}

\* Rounding residues of fitCircle: none, or a non-zero determinant with the
\* centre the residues then produce.
Residues == {NoResidue, [nonzero |-> TRUE, cx |-> 2 * Scale, cy |-> 2 * Scale]}

InitArcs ==
    /\ SimplifyIdle
    /\ StatusIdle
    /\ ListenersIdle
    /\ KerningIdle
    /\ LayoutIdle
    /\ EditorIdle
    /\ stroke \in ArcStrokes
    /\ arcTolerance \in ArcTolerances
    /\ residue \in Residues
    /\ pc = "idle"
    /\ i = 0
    /\ segments = <<>>
    /\ covered = <<>>
    /\ iterations = 0
    /\ examined = 0
    /\ fit = [count |-> -1, circle |-> NoCircle]

NextArcs ==
    \/ DetectArcsEnter
    \/ DetectArcsIterate
    \/ DetectArcsReturn
    \/ \E count \in 1..Len(stroke) : FitCircleCall(count)

SpecArcs == InitArcs /\ [][NextArcs]_vars

\* detectArcs runs to completion once called: it is one synchronous call.
SpecArcsLive == SpecArcs /\ WF_vars(DetectArcsEnter \/ DetectArcsIterate \/ DetectArcsReturn)

IsArc(k) == segments[k].type = "arc"
IsLine(k) == segments[k].type = "line"

\* All points of s lie on one line (coincident points included).
AllCollinear(s) == \A a, b, c \in 1..Len(s) : Collinear3(s[a], s[b], s[c])

\* C6: every Arc segment emitted by detectArcs spans at least 4 consecutive
\* stroke points (end index - start index >= 3), has a radius r with
\* 0.5 <= r <= 50, an angular span of at least 20 degrees and an
\* arc-length/chord-length ratio greater than 1.05; all of it recomputed from
\* the emitted segment.
C6_ArcsPassedEveryGuard ==
    \A k \in 1..Len(segments) :
        IsArc(k) =>
            LET seg == segments[k]
                arcAngle == ArcAngle(seg.start, seg.end, seg.center.x, seg.center.y)
                chordLength == ChordLength(seg.start, seg.end)
            IN  /\ covered[k].to - covered[k].from >= 3
                /\ seg.start = stroke[covered[k].from + 1]
                /\ seg.end = stroke[covered[k].to + 1]
                /\ seg.radius * 2 >= Scale
                /\ seg.radius <= 50 * Scale
                /\ ArcAngleDeg(arcAngle) >= 2000
                /\ chordLength > 0
                /\ ArcLength(seg.radius, arcAngle) > 1050 * chordLength

C6_Witness ==
    /\ pc = "done"
    /\ \E k \in 1..Len(segments) : IsArc(k) /\ covered[k].to - covered[k].from >= 4
    /\ \E k \in 1..Len(segments) : IsLine(k)

\* C7 as stated: a Line segment emitted when no arc candidate succeeds at
\* position i covers at least one point forward of i, so every Line segment
\* emitted for a stroke of 5 or more points contains at least 2 points.
C7_LinesCoverAPointForward ==
    Len(stroke) >= 5 =>
        \A k \in 1..Len(segments) :
            IsLine(k) => /\ covered[k].to > covered[k].from
                         /\ Len(segments[k].points) >= 2

\* C8: detectArcs terminates: every loop iteration increases the scan index
\* i, by at least 3 when it emits an Arc and by at least 1 when it emits a
\* Line; the loop runs at most n iterations for a stroke of n points; fitArc
\* examines at most 17 candidate end indices per start position; and the
\* call reaches its return.
C8_ScanAdvancesAndTerminates ==
    /\ [](iterations <= Len(stroke) /\ examined <= LookAhead - 3)
    /\ [][iterations' = iterations + 1 =>
             /\ i' > i
             /\ Len(segments') = Len(segments) + 1
             /\ segments'[Len(segments')].type = "arc" => i' >= i + 3
             /\ segments'[Len(segments')].type = "line" => i' >= i + 1]_vars
    /\ <>(pc = "done")

C8_Witness ==
    /\ pc = "loop"
    /\ Len(stroke) > LookAhead
    /\ examined = LookAhead - 3
    /\ iterations >= 2

\* C9 as stated: fitCircle returns no fit for fewer than 3 points and for
\* every set of collinear points, and a stroke of collinear points only is
\* segmented into Line segments only, detectArcs returning normally.
C9_CollinearNeverFits ==
    /\ (fit.count >= 0 /\ (fit.count < 3 \/ AllCollinear(SubSeq(stroke, 1, fit.count))))
           => ~fit.circle.fit
    /\ (pc = "done" /\ AllCollinear(stroke)) => \A k \in 1..Len(segments) : IsLine(k)

(***************************************************************************)
(* Kerning: addKerning, removeKerning, getKerningAdjustment and its        *)
(* matchers.  A JavaScript string is the sequence of its characters, each  *)
(* a one-character string; CharCode gives the UTF-16 code of a character.  *)
(***************************************************************************)
CharCode ==
    [c \in {" ", "!", "(", ",", "-", ".", "1", "A", "B", "V", "W", "Z"} |->
        CASE c = " " -> 32 [] c = "!" -> 33 [] c = "(" -> 40 [] c = "," -> 44
          [] c = "-" -> 45 [] c = "." -> 46 [] c = "1" -> 49 [] c = "A" -> 65
          [] c = "B" -> 66 [] c = "V" -> 86 [] c = "W" -> 87 [] c = "Z" -> 90]

\* The number NaN (parseFloat of a non-number, "".charCodeAt(0)), kept apart
\* from every code and every kerning value of the model.
NaN == -999

\* pattern.includes(ch)
Includes(s, ch) == \E k \in 1..Len(s) : s[k] = ch

\* s.split(sep), for a one-character separator
RECURSIVE Split(_, _)
Split(s, sep) ==
    IF ~Includes(s, sep) THEN <<s>>
    ELSE LET k == CHOOSE n \in 1..Len(s) : s[n] = sep /\ \A j \in 1..(n - 1) : s[j] # sep
         IN  <<SubSeq(s, 1, k - 1)>> \o Split(SubSeq(s, k + 1, Len(s)), sep)

\* s.trim()
RECURSIVE Trim(_)
Trim(s) ==
    IF s = <<>> THEN s
    ELSE IF s[1] = " " THEN Trim(Tail(s))
    ELSE IF s[Len(s)] = " " THEN Trim(SubSeq(s, 1, Len(s) - 1))
    ELSE s

\* s.charCodeAt(0)
CharCodeAt0(s) == IF s = <<>> THEN NaN ELSE CharCode[s[1]]

\* code >= start && code <= end, false when start or end is NaN
CodeInRange(code, start, end) ==
    start # NaN /\ end # NaN /\ code >= start /\ code <= end

\* pattern.split(',').map(c => c.trim()).includes(name)
InCommaList(name, pattern) ==
    LET items == Split(pattern, ",")
    IN  \E k \in 1..Len(items) : Trim(items[k]) = name

\* matchesUnicodePattern(char, pattern)
matchesUnicodePattern(char, pattern) ==
    IF pattern = <<>> THEN FALSE
    ELSE IF pattern = char THEN TRUE
    ELSE IF Includes(pattern, ",") /\ InCommaList(char, pattern) THEN TRUE
    ELSE IF Includes(pattern, "-") /\ Len(pattern) >= 3
         THEN LET parts == Split(pattern, "-")
              IN  /\ Len(parts) = 2
                  /\ CodeInRange(CharCodeAt0(char), CharCodeAt0(parts[1]), CharCodeAt0(parts[2]))
         ELSE FALSE

\* getGlyphName(char): charData?.glyphName || char, and no glyph record of
\* the editor carries a glyphName
getGlyphName(char) == char

\* matchesGlyphPattern(glyphName, pattern)
matchesGlyphPattern(glyphName, pattern) ==
    IF pattern = <<>> \/ glyphName = <<>> THEN FALSE
    ELSE IF pattern = glyphName THEN TRUE
    ELSE Includes(pattern, ",") /\ InCommaList(glyphName, pattern)

\* The test of one rule in getKerningAdjustment's loop.
RuleApplies(rule, char1, char2) ==
    IF rule.type = "unicode"
    THEN matchesUnicodePattern(char1, rule.u1) /\ matchesUnicodePattern(char2, rule.u2)
    ELSE IF rule.type = "glyph"
    THEN /\ matchesGlyphPattern(getGlyphName(char1), rule.g1)
         /\ matchesGlyphPattern(getGlyphName(char2), rule.g2)
    ELSE FALSE

\* "for (const rule of this.kerning) ... adjustment += rule.k" from rule k on
RECURSIVE AdjustmentFrom(_, _, _, _)
AdjustmentFrom(k, adjustment, char1, char2) ==
    IF k > Len(kerning) THEN adjustment
    ELSE AdjustmentFrom(k + 1,
                        IF RuleApplies(kerning[k], char1, char2)
                        THEN adjustment + kerning[k].k ELSE adjustment,
                        char1, char2)

\* getKerningAdjustment(char1, char2)
getKerningAdjustment(char1, char2) == AdjustmentFrom(1, 0, char1, char2)

(***************************************************************************)
(* Specification SpecKerning: rules are added and removed through the      *)
(* kerning form, and the adjustment of a character pair is looked up.      *)
(***************************************************************************)
MaxRules == 2

\* JSON.stringify writes the number NaN as null.
JsonNull == -998

\* saveToLocalStorage(): what it stores as the kerning of the current font,
\* JSON.stringify(this.kerning)
saveToLocalStorage(rules) ==
    [n \in 1..Len(rules) |->
        IF rules[n].k = NaN THEN [rules[n] EXCEPT !.k = JsonNull] ELSE rules[n]]

\* What the user types into kerning-u1 (before trim).
FirstInputs == {<<"A", "-", "Z">>, <<"A", ",", "V", ",", "W">>, <<"!", ",", "-", ",", ".">>,
                <<" ", "V">>, <<>>}
\* What the user types into kerning-u2.
SecondInputs == {<<"V">>, <<"A", "-", "Z">>, <<" ">>}
\* Glyph rules name glyphs.
GlyphInputs == {<<" ", "V">>, <<"V">>, <<"A", ",", "V", ",", "W">>}
\* parseFloat(kerning-value)
KernValues == {2, -1, NaN}

\* Characters of a text whose pairs are looked up.
TextChars == {<<"A">>, <<"B">>, <<"V">>, <<"1">>, <<"(">>}

\* addKerning(): a rule is stored unless a selector is empty after trim or
\* the value is not a number.
addKerning(in1, in2, type, value) ==
    /\ Len(kerning) < MaxRules
    /\ LET u1 == Trim(in1)
           u2 == Trim(in2)
       IN  IF u1 = <<>> \/ u2 = <<>> THEN UNCHANGED <<kerning, storedKerning>>
           ELSE IF value = NaN THEN UNCHANGED <<kerning, storedKerning>>
           ELSE /\ IF type = "unicode"
                   THEN kerning' = Append(kerning, [type |-> type, k |-> value, u1 |-> u1, u2 |-> u2])
                   ELSE kerning' = Append(kerning, [type |-> type, k |-> value, g1 |-> u1, g2 |-> u2])
                /\ storedKerning' = saveToLocalStorage(kerning')
    /\ kernQuery' = NoQuery
    /\ UNCHANGED <<simplifyVars, arcVars, layoutVars, editorVars, statusVars, listenerVars>>

\* removeKerning(index), index 0-based: this.kerning.splice(index, 1), then
\* "delete this.kerning[pair]" reads the undeclared name pair and throws a
\* ReferenceError, so updateKerningList() and saveToLocalStorage() after
\* it are not reached.
removeKerning(index) ==
    /\ index < Len(kerning)
    /\ kerning' = SubSeq(kerning, 1, index) \o SubSeq(kerning, index + 2, Len(kerning))
    /\ UNCHANGED storedKerning
    /\ kernQuery' = NoQuery
    /\ UNCHANGED <<simplifyVars, arcVars, layoutVars, editorVars, statusVars, listenerVars>>

\* getKerningAdjustment(char, nextChar), as the layout calls it
LookUpKerning(char1, char2) ==
    /\ kernQuery' = [char1 |-> char1, char2 |-> char2,
                     adjustment |-> getKerningAdjustment(char1, char2)]
    /\ UNCHANGED <<kerning, storedKerning>>
    /\ UNCHANGED <<simplifyVars, arcVars, layoutVars, editorVars, statusVars, listenerVars>>

InitKerning ==
    /\ SimplifyIdle
    /\ StatusIdle
    /\ ListenersIdle
    /\ ArcsIdle
    /\ KerningIdle
    /\ LayoutIdle
    /\ EditorIdle

NextKerning ==
    \/ \E in1 \in FirstInputs, in2 \in SecondInputs, value \in KernValues :
           addKerning(in1, in2, "unicode", value)
    \/ \E in1 \in GlyphInputs, in2 \in GlyphInputs, value \in KernValues :
           addKerning(in1, in2, "glyph", value)
    \/ \E index \in 0..(MaxRules - 1) : removeKerning(index)
    \/ \E char1 \in TextChars, char2 \in TextChars : LookUpKerning(char1, char2)

SpecKerning == InitKerning /\ [][NextKerning]_vars

\* The selector of a rule for the first and for the second character.
Selector1(rule) == IF rule.type = "unicode" THEN rule.u1 ELSE rule.g1
Selector2(rule) == IF rule.type = "unicode" THEN rule.u2 ELSE rule.g2

\* A selector matches a character as C10 says: it equals it, is a
\* comma-separated list containing it, or is a range "X-Y" whose code
\* interval contains it.
SelectorMatches(sel, char) ==
    \/ sel = char
    \/ Includes(sel, ",") /\ InCommaList(char, sel)
    \/ /\ Len(sel) = 3
       /\ sel[2] = "-"
       /\ CharCode[sel[1]] <= CharCode[char[1]]
       /\ CharCode[char[1]] <= CharCode[sel[3]]

RECURSIVE SumOfMatching(_, _, _)
SumOfMatching(rules, char1, char2) ==
    IF rules = <<>> THEN 0
    ELSE SumOfMatching(SubSeq(rules, 1, Len(rules) - 1), char1, char2)
         + (IF /\ SelectorMatches(Selector1(rules[Len(rules)]), char1)
               /\ SelectorMatches(Selector2(rules[Len(rules)]), char2)
            THEN rules[Len(rules)].k ELSE 0)

\* C10 as stated: getKerningAdjustment(c1, c2) is the sum of k over every
\* stored rule, in list order, whose first selector matches c1 and whose
\* second selector matches c2 (0 when none does), a selector matching a
\* character iff it equals it, is a comma-separated list containing it, or
\* is a range "X-Y" whose code interval contains it.
C10_SumOverMatchingRules ==
    kernQuery # NoQuery =>
        kernQuery.adjustment = SumOfMatching(kerning, kernQuery.char1, kernQuery.char2)


(***************************************************************************)
(* Text layout of the four exporters: generateGCode, exportImage,          *)
(* exportSVG and exportDXF.  Each wraps the text, runs the auto-fit search *)
(* and walks the lines advancing currentX and currentY.                    *)
(*                                                                         *)
(* Numbers.  A length of the output (the size, a spacing, a width) is an   *)
(* integer count of 1/Unit; glyph metrics keep their own units (horizAdvX  *)
(* font units, bounds canvas pixels).  With the canvas of 600 pixels and   *)
(* the default font metrics every product the exporters form is then an    *)
(* exact integer.  Where a width or height exactly equals its limit the    *)
(* doubles of the code may fall on either side; layoutRounding fixes which *)
(* for one run of the program, and every combination is explored.          *)
(***************************************************************************)
\* this.fontMetrics as the constructor and loadFontData default it
fontMetrics == [ascent |-> 800, descent |-> -200]

\* this.canvas.height, the square canvas at its full size
referenceHeight == 600

fontRange == fontMetrics.ascent - fontMetrics.descent

\* One unit of output length.
Unit == 100 * referenceHeight

\* "testSize += 0.5"
SizeStep == Unit \div 2

RECURSIVE Gcd(_, _)
Gcd(a, b) == IF b = 0 THEN a ELSE Gcd(b, a % b)

\* (this.canvas.height * 0.7) / fontRange as a fraction in lowest terms
canvasScale ==
    CHOOSE f \in {<<(referenceHeight * 7) \div g, (10 * fontRange) \div g>> :
                  g \in {Gcd(referenceHeight * 7, 10 * fontRange)}} : TRUE

\* charData.horizAdvX of a glyph record that has no such field
Undefined == -1

\* normalizeCharacter(char): map[char] || char.  A character outside ASCII
\* is written by its code, "u2019" for U+2019.
normalizeCharacter(char) ==
    CASE char = "u2019" -> "'"
      [] char = "u2018" -> "'"
      [] char = "u201C" -> "\""
      [] char = "u201D" -> "\""
      [] char = "u2013" -> "-"
      [] char = "u2014" -> "-"
      [] char = "u2026" -> "..."
      [] OTHER -> char

\* outputSize / referenceHeight, in 1/Unit per canvas pixel
ScaleOf(size) == size \div referenceHeight

\* size * 0.5
HalfOf(size) == size \div 2

\* charData.horizAdvX * canvasScale * scale
AdvanceTimes(charData, sc) == (charData.horizAdvX * canvasScale[1] * sc) \div canvasScale[2]

\* The advance of a glyph at output scale: its horizAdvX converted to canvas
\* pixels if it has one, else its bounds.width.
charWidth(charData, sc) ==
    IF charData.horizAdvX # Undefined
    THEN AdvanceTimes(charData, sc)
    ELSE charData.bounds.width * sc

\* "a > b" on doubles whose exact values are a and b
Exceeds(a, b, tieOver) == a > b \/ (a = b /\ tieOver)

\* this.font[normalizedChar] or this.font[char]
LookupKey(char, normalize) == IF normalize THEN normalizeCharacter(char) ELSE char

\* wordWidth of the first wrap, at the configured size
wordWidth(word, normalize, outputSize) ==
    SumSeq([k \in 1..Len(word) |->
        IF LookupKey(word[k], normalize) \in DOMAIN font
        THEN charWidth(font[LookupKey(word[k], normalize)], ScaleOf(outputSize))
                 + options.charSpacing
        ELSE HalfOf(outputSize) + options.charSpacing])

\* spaceWidthTotal of the first wrap
spaceWidthTotal(outputSize) ==
    IF " " \in DOMAIN font /\ font[" "].horizAdvX # Undefined
    THEN AdvanceTimes(font[" "], ScaleOf(outputSize)) + options.charSpacing
    ELSE options.spaceWidth + options.charSpacing

\* wordWidth inside calculateDimensions
testWordWidth(word, testSize) ==
    SumSeq([k \in 1..Len(word) |->
        IF word[k] \in DOMAIN font
        THEN font[word[k]].bounds.width * ScaleOf(testSize) + options.charSpacing
        ELSE HalfOf(testSize) + options.charSpacing])

\* spaceWidthTotal inside calculateDimensions
testSpaceWidthTotal == options.spaceWidth + options.charSpacing

\* PlaceWord with the comparison turned round: the line is broken before
\* a word that fits.
PlaceWordBreaksWhenFits(st, word, width, spaceTotal) ==
    IF /\ Len(st.currentLine) > 0
       /\ ~Exceeds(st.currentWidth + spaceTotal + width, options.maxWidth,
                   layoutRounding.wrapTieOver)
    THEN [lines |-> Append(st.lines, st.currentLine),
          currentLine |-> word, currentWidth |-> width]
    ELSE IF Len(st.currentLine) > 0
    THEN [lines |-> st.lines,
          currentLine |-> st.currentLine \o <<" ">> \o word,
          currentWidth |-> st.currentWidth + spaceTotal + width]
    ELSE [lines |-> st.lines, currentLine |-> word, currentWidth |-> width]

\* The body of words.forEach: the word starts a new line or joins the
\* current one.
PlaceWord(st, word, width, spaceTotal) ==
    IF /\ Len(st.currentLine) > 0
       /\ Exceeds(st.currentWidth + spaceTotal + width, options.maxWidth,
                  layoutRounding.wrapTieOver)
    THEN [lines |-> Append(st.lines, st.currentLine),
          currentLine |-> word, currentWidth |-> width]
    ELSE IF Len(st.currentLine) > 0
    THEN [lines |-> st.lines,
          currentLine |-> st.currentLine \o <<" ">> \o word,
          currentWidth |-> st.currentWidth + spaceTotal + width]
    ELSE [lines |-> st.lines, currentLine |-> word, currentWidth |-> width]

\* words.forEach from word k on, then "wrappedLines.push(currentLine)"
RECURSIVE WrapWords(_, _, _, _, _)
WrapWords(words, widths, spaceTotal, k, st) ==
    IF k > Len(words) THEN Append(st.lines, st.currentLine)
    ELSE CHOOSE r \in {WrapWords(words, widths, spaceTotal, k + 1, n) :
                       n \in {PlaceWord(st, words[k], widths[k], spaceTotal)}} : TRUE

\* The metric of a wrap: the first wrap with or without normalizeCharacter,
\* or the re-wrap of calculateDimensions.
WordWidthFor(metric, word, size) ==
    IF metric = "test" THEN testWordWidth(word, size)
    ELSE wordWidth(word, metric = "normalized", size)

SpaceTotalFor(metric, size) ==
    IF metric = "test" THEN testSpaceWidthTotal ELSE spaceWidthTotal(size)

\* inputLines.forEach body: the wrapped lines of one input line
WrapLine(inputLine, metric, size) ==
    CHOOSE r \in {WrapWords(words,
                            [k \in 1..Len(words) |-> WordWidthFor(metric, words[k], size)],
                            SpaceTotalFor(metric, size), 1,
                            [lines |-> <<>>, currentLine |-> <<>>, currentWidth |-> 0]) :
                  words \in {Split(inputLine, " ")}} : TRUE

RECURSIVE Concat(_, _)
Concat(seqs, k) == IF k > Len(seqs) THEN <<>> ELSE seqs[k] \o Concat(seqs, k + 1)

\* text.split('\n')
inputLines == Split(text, "\n")

\* The wrapped lines: word wrap when maxWidth > 0, else the input lines.
WrapText(metric, size) ==
    IF options.maxWidth > 0
    THEN Concat([k \in 1..Len(inputLines) |-> WrapLine(inputLines[k], metric, size)], 1)
    ELSE inputLines

\* generateGCode and exportImage look the first wrap up with
\* normalizeCharacter, exportSVG and exportDXF without.
FirstWrapMetric(exporter) ==
    IF exporter \in {"generateGCode", "exportImage"} THEN "normalized" ELSE "raw"

\* maxCharHeight of exportSVG and exportDXF: the largest bounds.height of
\* the font, referenceHeight when that is 0
maxCharHeight ==
    CHOOSE h \in {IF m = 0 THEN referenceHeight ELSE m :
                  m \in {IF DOMAIN font = {} THEN 0
                         ELSE CHOOSE v \in {font[c].bounds.height : c \in DOMAIN font} :
                                  \A c \in DOMAIN font : font[c].bounds.height <= v}} : TRUE

\* The width one character adds to lineWidth in calculateDimensions.
testCharWidth(exporter, char, testSize) ==
    IF exporter \in {"generateGCode", "exportImage"}
    THEN IF normalizeCharacter(char) \in DOMAIN font
         THEN (IF font[normalizeCharacter(char)].horizAdvX # Undefined
               THEN font[normalizeCharacter(char)].horizAdvX * ScaleOf(testSize)
               ELSE font[normalizeCharacter(char)].bounds.width * ScaleOf(testSize))
              + options.charSpacing
         ELSE IF char = " "
         THEN (IF " " \in DOMAIN font /\ font[" "].horizAdvX # Undefined
               THEN font[" "].horizAdvX * ScaleOf(testSize)
               ELSE options.spaceWidth)
              + options.charSpacing
         ELSE HalfOf(testSize) + options.charSpacing
    ELSE IF char \in DOMAIN font
         THEN font[char].bounds.width * ScaleOf(testSize) + options.charSpacing
         ELSE (IF char = " " THEN options.spaceWidth ELSE HalfOf(testSize))
              + options.charSpacing

\* maxLineWidth of calculateDimensions
testMaxLineWidth(exporter, lines, testSize) ==
    LET lineWidth(k) ==
            SumSeq([c \in 1..Len(lines[k]) |-> testCharWidth(exporter, lines[k][c], testSize)])
    IN  IF lines = <<>> THEN 0
        ELSE CHOOSE w \in {lineWidth(k) : k \in 1..Len(lines)} :
                 \A k \in 1..Len(lines) : lineWidth(k) <= w

\* lineSpacing, and testLineSpacing of calculateDimensions
lineSpacing(exporter, size) ==
    IF exporter \in {"generateGCode", "exportImage"}
    THEN size + options.lineGap
    ELSE maxCharHeight * ScaleOf(size) + options.lineGap

testLineSpacing(exporter, testSize) ==
    IF exporter = "exportSVG"
    THEN maxCharHeight * ScaleOf(testSize) + options.lineGap
    ELSE testSize + options.lineGap

\* totalHeight of calculateDimensions
testTotalHeight(exporter, lines, testSize) ==
    LET first == IF exporter = "exportDXF" THEN maxCharHeight * ScaleOf(testSize)
                 ELSE testSize
    IN  first + SumSeq([k \in 1..(Len(lines) - 1) |->
                    IF Len(lines[k + 1]) = 0 THEN HalfOf(first)
                    ELSE testLineSpacing(exporter, testSize)])

\* calculateDimensions(testSize)
calculateDimensions(exporter, testSize) ==
    CHOOSE d \in {[width |-> testMaxLineWidth(exporter, lines, testSize),
                   height |-> testTotalHeight(exporter, lines, testSize),
                   wrappedLines |-> lines] :
                  lines \in {WrapText("test", testSize)}} : TRUE

\* fitsWidth && fitsHeight
Fits(dims) ==
    /\ options.maxWidth <= 0
       \/ ~Exceeds(dims.width, options.maxWidth, layoutRounding.fitTieOver)
    /\ options.maxHeight <= 0
       \/ ~Exceeds(dims.height, options.maxHeight, layoutRounding.fitTieOver)

\* "for (let testSize = outputSize; testSize <= maxTextSize; testSize += 0.5)"
\* from testSize on: a fitting candidate becomes the best, the first that
\* does not fit ends the loop.
RECURSIVE autoFitFrom(_, _, _)
autoFitFrom(exporter, testSize, best) ==
    IF testSize > options.maxTextSize THEN best
    ELSE CHOOSE r \in {IF Fits(dims)
                       THEN autoFitFrom(exporter, testSize + SizeStep,
                                    [bestSize |-> testSize,
                                     bestWrappedLines |-> dims.wrappedLines])
                       ELSE best :
                       dims \in {calculateDimensions(exporter, testSize)}} : TRUE

\* The wrapped lines and the output size the exporter places glyphs with.
Layout(exporter) ==
    CHOOSE r \in {IF options.autoFit /\ (options.maxWidth > 0 \/ options.maxHeight > 0)
                  THEN autoFitFrom(exporter, options.outputSize,
                               [bestSize |-> options.outputSize,
                                bestWrappedLines |-> wrapped])
                  ELSE [bestSize |-> options.outputSize, bestWrappedLines |-> wrapped] :
                  wrapped \in {WrapText(FirstWrapMetric(exporter), options.outputSize)}} : TRUE

\* generateGCode's advance with the kerning left out.
gcodeAdvanceWithoutKerning(line, k, outputSize) ==
    IF normalizeCharacter(line[k]) \notin DOMAIN font
    THEN IF line[k] = " "
         THEN (IF " " \in DOMAIN font /\ font[" "].horizAdvX # Undefined
               THEN AdvanceTimes(font[" "], ScaleOf(outputSize))
               ELSE options.spaceWidth)
              + options.charSpacing
         ELSE HalfOf(outputSize) + options.charSpacing
    ELSE charWidth(font[normalizeCharacter(line[k])], ScaleOf(outputSize))
         + options.charSpacing

\* What generateGCode adds to currentX for character k of the line.
gcodeAdvance(line, k, outputSize) ==
    IF normalizeCharacter(line[k]) \notin DOMAIN font
    THEN IF line[k] = " "
         THEN (IF " " \in DOMAIN font /\ font[" "].horizAdvX # Undefined
               THEN AdvanceTimes(font[" "], ScaleOf(outputSize))
               ELSE options.spaceWidth)
              + options.charSpacing
         ELSE HalfOf(outputSize) + options.charSpacing
    ELSE charWidth(font[normalizeCharacter(line[k])], ScaleOf(outputSize))
         + (IF k < Len(line)
            THEN options.charSpacing
                 - getKerningAdjustment(<<line[k]>>, <<line[k + 1]>>) * Unit
            ELSE options.charSpacing)

\* What exportImage, exportSVG and exportDXF add to currentX for character k
\* of the line; exportImage looks the glyph up without normalizeCharacter.
exportAdvance(line, k, outputSize, normalize) ==
    IF LookupKey(line[k], normalize) \notin DOMAIN font
    THEN (IF line[k] = " " THEN options.spaceWidth ELSE HalfOf(outputSize))
         + options.charSpacing
    ELSE charWidth(font[LookupKey(line[k], normalize)], ScaleOf(outputSize))
         + options.charSpacing

AdvanceOf(exporter, line, k, outputSize) ==
    IF exporter = "generateGCode" THEN gcodeAdvance(line, k, outputSize)
    ELSE exportAdvance(line, k, outputSize, exporter # "exportImage")

\* "const padding = 20" of exportImage and exportSVG
padding == 20 * Unit

\* "let currentX = 0" or "let currentX = padding"
StartX(exporter) == IF exporter \in {"exportImage", "exportSVG"} THEN padding ELSE 0

\* currentX when character c of the line is reached, for every c
OriginsOf(exporter, line, outputSize) ==
    [c \in 1..Len(line) |->
        StartX(exporter)
        + SumSeq([k \in 1..(c - 1) |-> AdvanceOf(exporter, line, k, outputSize)])]

\* currentX when the loop over the characters of the line ends
EndXOf(exporter, line, outputSize) ==
    StartX(exporter)
    + SumSeq([k \in 1..Len(line) |-> AdvanceOf(exporter, line, k, outputSize)])

\* lineAdvance: what the line adds to (or takes from) currentY
lineAdvance(exporter, line, outputSize) ==
    IF Len(line) = 0 THEN HalfOf(outputSize) ELSE lineSpacing(exporter, outputSize)

\* The placement one run of the exporter computes.
Place(exporter) ==
    CHOOSE p \in {[outputSize |-> l.bestSize,
                   wrappedLines |-> l.bestWrappedLines,
                   startX |-> StartX(exporter),
                   origins |-> [k \in 1..Len(l.bestWrappedLines) |->
                                   OriginsOf(exporter, l.bestWrappedLines[k], l.bestSize)],
                   endX |-> [k \in 1..Len(l.bestWrappedLines) |->
                                EndXOf(exporter, l.bestWrappedLines[k], l.bestSize)],
                   advances |-> [k \in 1..Len(l.bestWrappedLines) |->
                                    lineAdvance(exporter, l.bestWrappedLines[k], l.bestSize)]] :
                  l \in {Layout(exporter)}} : TRUE

(***************************************************************************)
(* The motion program generateGCode emits.  A line of the program is a     *)
(* record of its words; a word that the line does not carry is <<>>, one   *)
(* that it carries is <<value>>.  X, Y, I and J hold the value toFixed(3)  *)
(* prints, in thousandths; Z and F hold the field's value, which the       *)
(* template literal prints the same way wherever it occurs.                *)
(***************************************************************************)
GLine(cmd, X, Y, I, J, Z, F, note) ==
    [cmd |-> cmd, X |-> X, Y |-> Y, I |-> I, J |-> J, Z |-> Z, F |-> F, note |-> note]

\* A comment or an empty line.
Remark(note) == GLine(";", <<>>, <<>>, <<>>, <<>>, <<>>, <<>>, note)

\* value.toFixed(3) of a length in 1/Unit; a value exactly between two
\* thousandths goes the way the double happens to lie.
ToFixed3(value) ==
    LET perThousandth == Unit \div 1000
        below == value \div perThousandth
        rest == value % perThousandth
    IN  IF 2 * rest > perThousandth THEN below + 1
        ELSE IF 2 * rest < perThousandth THEN below
        ELSE IF machining.fixedTieUp THEN below + 1 ELSE below

\* detectArcs(stroke) from index idx on (0-based), segs being the segments
\* found so far.
RECURSIVE detectArcsFrom(_, _, _)
detectArcsFrom(s, idx, segs) ==
    IF ~(idx < Len(s)) THEN segs
    ELSE CHOOSE result \in
             {IF ArcLongEnough(res.arc, idx)
              THEN detectArcsFrom(s, res.arc.endIndex,
                       Append(segs, ArcSegment(s[idx + 1], s[res.arc.endIndex + 1], res.arc)))
              ELSE detectArcsFrom(s,
                       IF idx = Min(idx + 1, Len(s) - 1) THEN idx + 1
                       ELSE Min(idx + 1, Len(s) - 1),
                       Append(segs, LineSegment(Slice(s, idx, Min(idx + 1, Len(s) - 1) + 1)))) :
                  res \in {fitArc(s, idx)}} : TRUE

detectArcs(s) ==
    IF Len(s) < 5 THEN <<LineSegment(s)>> ELSE detectArcsFrom(s, 0, <<>>)

\* The emitter: the lines pushed so far, lastGCodeLine, lastFeedRate (<<>>
\* for null), isFirstSegment and isAtSafeZ.
\* if (line !== lastGCodeLine) { gcode.push(line); lastGCodeLine = line; }
addGCode(e, line) ==
    IF line # e.lastGCodeLine
    THEN [e EXCEPT !.gcode = Append(@, line), !.lastGCodeLine = line]
    ELSE e

\* lastFeedRate !== rate ? ` F${rate}` : ''
feedCode(e, rate) == IF e.lastFeedRate # <<rate>> THEN <<rate>> ELSE <<>>

ZMove(cmd, z, F, note) == GLine(cmd, <<>>, <<>>, <<>>, <<>>, <<z>>, F, note)

\* addGCode(`G0 Z${safeZ}`); lastFeedRate = null
liftToSafeZ(e) ==
    [addGCode(e, ZMove("G0", machining.safeZ, <<>>, <<>>)) EXCEPT !.lastFeedRate = <<>>]

\* The block "if (isFirstSegment ...)": lift if needed, rapid to the start
\* of the stroke, plunge.
rapidTo(e, x, y) ==
    [addGCode(e, GLine("G0", <<ToFixed3(x)>>, <<ToFixed3(y)>>, <<>>, <<>>, <<>>,
                       feedCode(e, machining.feedRate), <<>>))
        EXCEPT !.lastFeedRate = <<machining.feedRate>>]

\* Mutant of plunge: lastFeedRate is not set to the plunge rate.
plungeForgetsRate(e) ==
    [addGCode(e, ZMove("G1", machining.engraveDepth, feedCode(e, machining.plungeRate), <<>>))
        EXCEPT !.isFirstSegment = FALSE, !.isAtSafeZ = FALSE]

plunge(e) ==
    [addGCode(e, ZMove("G1", machining.engraveDepth, feedCode(e, machining.plungeRate), <<>>))
        EXCEPT !.lastFeedRate = <<machining.plungeRate>>,
               !.isFirstSegment = FALSE, !.isAtSafeZ = FALSE]

penDown(e, x, y) ==
    CHOOSE down \in
        {plunge(atStart) :
            atStart \in {rapidTo(lifted, x, y) :
                lifted \in {IF ~e.isAtSafeZ THEN liftToSafeZ(e) ELSE e}}} : TRUE

\* A G1, G2 or G3 move in the XY plane.
cutTo(e, cmd, x, y, I, J) ==
    [addGCode(e, GLine(cmd, <<ToFixed3(x)>>, <<ToFixed3(y)>>, I, J, <<>>,
                       feedCode(e, machining.feedRate), <<>>))
        EXCEPT !.lastFeedRate = <<machining.feedRate>>]

\* Mutant of penUp: the tool stays down after the stroke.
penUpStaysDown(e) == [e EXCEPT !.lastFeedRate = <<>>, !.isAtSafeZ = TRUE]

\* "Pen up after each stroke"
penUp(e) == [liftToSafeZ(e) EXCEPT !.isAtSafeZ = TRUE]

\* What the loops of generateGCode do, in order, as a list of steps; p is
\* the placement.  The position of a point: x = (point.x - bounds.minX) *
\* scale + currentX, y = currentY - point.y * scale.
PointStep(point, first, ctx) ==
    [op |-> "point", first |-> first,
     x |-> (point.x - ctx.minX) * ctx.scale + ctx.currentX,
     y |-> ctx.currentY - point.y * ctx.scale]

\* The centre of an arc is in 1/Scale canvas pixel; I and J are the offsets
\* from the start point to the centre.
ArcStep(segment, ctx) ==
    [op |-> "arc",
     startX |-> (segment.start.x - ctx.minX) * ctx.scale + ctx.currentX,
     startY |-> ctx.currentY - segment.start.y * ctx.scale,
     x |-> (segment.end.x - ctx.minX) * ctx.scale + ctx.currentX,
     y |-> ctx.currentY - segment.end.y * ctx.scale,
     I |-> ((segment.center.x - segment.start.x * Scale) * ctx.scale) \div Scale,
     J |-> ((segment.start.y * Scale - segment.center.y) * ctx.scale) \div Scale,
     cmd |-> IF segment.clockwise THEN "G3" ELSE "G2"]

SegmentSteps(segment, ctx) ==
    IF segment.type = "arc" THEN <<ArcStep(segment, ctx)>>
    ELSE [k \in 1..Len(segment.points) |-> PointStep(segment.points[k], k = 1, ctx)]

StrokeSteps(s, ctx) ==
    CHOOSE steps \in
        {<<[op |-> "stroke"]>>
         \o Concat([k \in 1..Len(found) |-> SegmentSteps(found[k], ctx)], 1)
         \o <<[op |-> "penUp"]>> : found \in {detectArcs(s)}} : TRUE

CharSteps(char, glyph, ctx) ==
    <<[op |-> "char", line |-> Remark(<<"Character", char>>)]>>
    \o Concat([k \in 1..Len(glyph.strokes) |-> StrokeSteps(glyph.strokes[k], ctx)], 1)

\* currentY while line l is emitted: totalHeight less the advances of the
\* lines above.
currentYOf(p, l) ==
    p.outputSize
    + SumSeq([k \in 1..(Len(p.advances) - 1) |-> p.advances[k + 1]])
    - SumSeq([k \in 1..(l - 1) |-> p.advances[k]])

LineSteps(p, l) ==
    <<[op |-> "push", line |-> Remark(<<>>)],
      [op |-> "push", line |-> Remark(<<"Line", l>>)]>>
    \o Concat([c \in 1..Len(p.wrappedLines[l]) |->
                  IF normalizeCharacter(p.wrappedLines[l][c]) \notin DOMAIN font THEN <<>>
                  ELSE CharSteps(p.wrappedLines[l][c],
                                 font[normalizeCharacter(p.wrappedLines[l][c])],
                                 [scale |-> ScaleOf(p.outputSize),
                                  currentX |-> p.origins[l][c],
                                  currentY |-> currentYOf(p, l),
                                  minX |-> font[normalizeCharacter(p.wrappedLines[l][c])].bounds.minX])],
              1)

HeaderSteps ==
    <<[op |-> "push", line |-> Remark(<<"GCode Font Creator Output">>)],
      [op |-> "push", line |-> Remark(<<"Font">>)]>>
    \o (IF Len(inputLines) = 1
        THEN <<[op |-> "push", line |-> Remark(<<"Text", text>>)]>>
        ELSE <<[op |-> "push", line |-> Remark(<<"Text">>)]>>
             \o [k \in 1..Len(inputLines) |-> [op |-> "push", line |-> Remark(<<"Text", inputLines[k]>>)]])
    \o <<[op |-> "push", line |-> Remark(<<"Generated">>)],
         [op |-> "push", line |-> Remark(<<>>)],
         [op |-> "push", line |-> GLine("G21", <<>>, <<>>, <<>>, <<>>, <<>>, <<>>, <<"mm mode">>)],
         [op |-> "push", line |-> GLine("G90", <<>>, <<>>, <<>>, <<>>, <<>>, <<>>, <<"Absolute positioning">>)],
         [op |-> "push", line |-> GLine("G17", <<>>, <<>>, <<>>, <<>>, <<>>, <<>>, <<"XY plane">>)],
         [op |-> "first", line |-> ZMove("G0", machining.safeZ, <<machining.plungeRate>>,
                                         <<"Move to safe Z">>)],
         [op |-> "push", line |-> Remark(<<>>)]>>

FooterSteps ==
    <<[op |-> "push", line |-> Remark(<<>>)],
      [op |-> "add", line |-> ZMove("G0", machining.safeZ, <<>>, <<"Return to safe Z">>)],
      [op |-> "add", line |-> GLine("G0", <<0>>, <<0>>, <<>>, <<>>, <<>>, <<>>,
                                    <<"Return to origin">>)],
      [op |-> "push", line |-> GLine("M2", <<>>, <<>>, <<>>, <<>>, <<>>, <<>>, <<"End program">>)]>>

ProgramSteps(p) ==
    HeaderSteps
    \o Concat([l \in 1..Len(p.wrappedLines) |-> LineSteps(p, l)], 1)
    \o FooterSteps

\* One step applied to the emitter.
Emit(e, step) ==
    CASE step.op = "push" -> [e EXCEPT !.gcode = Append(@, step.line)]
      [] step.op = "first" -> [e EXCEPT !.gcode = Append(@, step.line),
                                        !.lastGCodeLine = step.line]
      [] step.op = "add" -> addGCode(e, step.line)
      [] step.op = "char" -> [e EXCEPT !.gcode = Append(@, step.line), !.isAtSafeZ = TRUE]
      [] step.op = "stroke" -> [e EXCEPT !.isFirstSegment = TRUE]
      [] step.op = "point" ->
            IF e.isFirstSegment /\ step.first THEN penDown(e, step.x, step.y)
            ELSE cutTo(e, "G1", step.x, step.y, <<>>, <<>>)
      [] step.op = "arc" ->
            CHOOSE cut \in
                {cutTo(down, step.cmd, step.x, step.y, <<ToFixed3(step.I)>>, <<ToFixed3(step.J)>>) :
                    down \in {IF e.isFirstSegment THEN penDown(e, step.startX, step.startY)
                              ELSE e}} : TRUE
      [] step.op = "penUp" -> penUp(e)

RECURSIVE EmitFrom(_, _, _)
EmitFrom(steps, k, e) ==
    IF k > Len(steps) THEN e
    ELSE CHOOSE done \in {EmitFrom(steps, k + 1, next) : next \in {Emit(e, steps[k])}} : TRUE

NoLine == Remark(<<"none">>)

\* gcode = [], lastGCodeLine = '', lastFeedRate = null
NewEmitter == [gcode |-> <<>>, lastGCodeLine |-> NoLine, lastFeedRate |-> <<>>,
               isFirstSegment |-> TRUE, isAtSafeZ |-> TRUE]

\* this.generatedGCode, as the list of its lines
Program(p) ==
    CHOOSE lines \in
        {EmitFrom(steps, 1, NewEmitter).gcode : steps \in {ProgramSteps(p)}} : TRUE

generateGCode ==
    /\ \E p \in {Place("generateGCode")} :
           /\ placement' = [placement EXCEPT !["generateGCode"] = p]
           /\ generatedGCode' = Program(p)
    /\ UNCHANGED <<text, font, options, layoutRounding, machining, downloads>>
    /\ UNCHANGED <<simplifyVars, arcVars, kernVars, editorVars, statusVars, listenerVars>>

\* The file name a.download is given: the font-name field, here "font",
\* and the exporter's suffix.
fileName(exporter) ==
    CASE exporter = "exportImage" -> "font_text.png"
      [] exporter = "exportSVG" -> "font_text.svg"
      [] exporter = "exportDXF" -> "font_text.dxf"
      [] exporter = "exportSVGFont" -> "font.svg"
      [] exporter = "downloadGCode" -> "font_output.gcode"

\* "if (!text) { alert(...); return; }" leaves the three exports without
\* effect on an empty text; on any other text they lay it out, draw it and
\* hand the file to the browser.
exportImage ==
    /\ text # <<>>
    /\ placement' = [placement EXCEPT !["exportImage"] = Place("exportImage")]
    /\ downloads' = downloads \cup {fileName("exportImage")}
    /\ UNCHANGED <<text, font, options, layoutRounding, machining, generatedGCode>>
    /\ UNCHANGED <<simplifyVars, arcVars, kernVars, editorVars, statusVars, listenerVars>>

exportSVG ==
    /\ text # <<>>
    /\ placement' = [placement EXCEPT !["exportSVG"] = Place("exportSVG")]
    /\ downloads' = downloads \cup {fileName("exportSVG")}
    /\ UNCHANGED <<text, font, options, layoutRounding, machining, generatedGCode>>
    /\ UNCHANGED <<simplifyVars, arcVars, kernVars, editorVars, statusVars, listenerVars>>

exportDXF ==
    /\ text # <<>>
    /\ placement' = [placement EXCEPT !["exportDXF"] = Place("exportDXF")]
    /\ downloads' = downloads \cup {fileName("exportDXF")}
    /\ UNCHANGED <<text, font, options, layoutRounding, machining, generatedGCode>>
    /\ UNCHANGED <<simplifyVars, arcVars, kernVars, editorVars, statusVars, listenerVars>>

\* "if (!this.generatedGCode) { alert(...); return; }", else the program is
\* handed to the browser as font_output.gcode.
downloadGCode ==
    /\ generatedGCode # <<>>
    /\ downloads' = downloads \cup {fileName("downloadGCode")}
    /\ UNCHANGED <<text, font, options, layoutRounding, placement, machining, generatedGCode>>
    /\ UNCHANGED <<simplifyVars, arcVars, kernVars, editorVars, statusVars, listenerVars>>

\* "if (Object.keys(this.font).length === 0) { alert(...); return; }", else
\* the font is written out and handed to the browser.
exportSVGFont ==
    /\ DOMAIN font # {}
    /\ downloads' = downloads \cup {fileName("exportSVGFont")}
    /\ UNCHANGED <<text, font, options, layoutRounding, placement, machining, generatedGCode>>
    /\ UNCHANGED <<simplifyVars, arcVars, kernVars, editorVars, statusVars, listenerVars>>

(***************************************************************************)
(* Specification SpecLayout: a text, a font, kerning rules and options are *)
(* in place, and the four exporters are run on them in any order.          *)
(***************************************************************************)
\* The largest value of the max-text-size field, in whole units.
LargestSize == 10

Texts == {<<"A", " ", "A">>, <<"A", "V">>, <<"A", "V", " ", "A">>,
          <<"A", "\n", "\n", "V">>, <<"u2019", "A">>, <<>>}

\* A glyph with an advance narrower than its strokes, one without advance (a
\* font stored before advances existed), an apostrophe and a space.
Glyphs ==
    [c \in {"A", "V", "'", " "} |->
        CASE c = "A" -> [horizAdvX |-> 700, bounds |-> [minX |-> 100, width |-> 400, height |-> 500],
                         strokes |-> <<<<Pt(100, 500), Pt(300, 0), Pt(500, 500)>>,
                                       <<Pt(200, 250), Pt(400, 250)>>>>]
          [] c = "V" -> [horizAdvX |-> Undefined, bounds |-> [minX |-> 150, width |-> 300, height |-> 400],
                         strokes |-> <<<<Pt(150, 100), Pt(300, 500), Pt(450, 100)>>>>]
          [] c = "'" -> [horizAdvX |-> 200, bounds |-> [minX |-> 280, width |-> 50, height |-> 100],
                         strokes |-> <<<<Pt(280, 0), Pt(330, 100)>>>>]
          [] c = " " -> [horizAdvX |-> 300, bounds |-> [minX |-> 0, width |-> 0, height |-> 0],
                         strokes |-> <<>>]]

Fonts == {[c \in {"A", "V", "'"} |-> Glyphs[c]], Glyphs}

LayoutKernings == {<<>>, <<[type |-> "unicode", k |-> 2, u1 |-> <<"A">>, u2 |-> <<"V">>]>>}

OptionSets ==
    [outputSize : {3 * Unit, 4 * Unit},
     charSpacing : {0, Unit},
     spaceWidth : {Unit},
     lineGap : {Unit},
     maxWidth : {0, 10 * Unit},
     maxHeight : {0, 12 * Unit},
     autoFit : BOOLEAN,
     maxTextSize : {2 * Unit, LargestSize * Unit}]

\* One setting of the machining fields: feed faster than plunge, safe Z above the cut.
DefaultMachining == [feedRate |-> 1000, plungeRate |-> 300, safeZ |-> 5, engraveDepth |-> -1,
                     fixedTieUp |-> FALSE]

InitLayout ==
    /\ SimplifyIdle
    /\ StatusIdle
    /\ ListenersIdle
    /\ ArcsIdle
    /\ kerning \in LayoutKernings
    /\ kernQuery = NoQuery
    /\ storedKerning = saveToLocalStorage(kerning)
    /\ text \in Texts
    /\ font \in Fonts
    /\ options \in OptionSets
    /\ layoutRounding \in [wrapTieOver : BOOLEAN, fitTieOver : BOOLEAN]
    /\ placement = [e \in Exporters |-> NoPlacement]
    /\ machining = DefaultMachining
    /\ generatedGCode = <<>>
    /\ downloads = {}
    /\ EditorIdle

NextLayout ==
    \/ generateGCode
    \/ exportImage
    \/ exportSVG
    \/ exportDXF

SpecLayout == InitLayout /\ [][NextLayout]_vars

\* The exporter has run.
Placed(e) == placement[e] # NoPlacement

\* Two placements agree: lines, size, vertical advances, and the horizontal
\* origin of every glyph measured from where the exporter starts a line.
SamePlacement(a, b) ==
    /\ a.wrappedLines = b.wrappedLines
    /\ a.outputSize = b.outputSize
    /\ a.advances = b.advances
    /\ \A l \in 1..Len(a.wrappedLines) : \A c \in 1..Len(a.wrappedLines[l]) :
           normalizeCharacter(a.wrappedLines[l][c]) \in DOMAIN font
               => a.origins[l][c] - a.startX = b.origins[l][c] - b.startX

\* C1 as stated: for the same text, font and layout options the four
\* exporters compute identical glyph placement: the same wrapped lines, the
\* same effective output size, the same kerning-adjusted horizontal origin
\* for every glyph and the same vertical advance for every line.
C1_ExportersPlaceIdentically ==
    \A a \in Exporters, b \in Exporters :
        (Placed(a) /\ Placed(b)) => SamePlacement(placement[a], placement[b])

\* The candidates of the search, outputSize + 0.5 * k up to maxTextSize.
Candidates ==
    {options.outputSize + k * SizeStep :
        k \in 0..((LargestSize * Unit) \div SizeStep)} \cap (0..options.maxTextSize)

\* The candidates whose width and height, computed by calculateDimensions
\* after re-wrapping at that size, satisfy every constraint that is set.
FittingCandidates == {s \in Candidates : Fits(calculateDimensions("generateGCode", s))}

\* C2 as stated: with auto-fit enabled and maxWidth and/or maxHeight set,
\* the effective output size of generateGCode is the largest candidate
\* s = outputSize + 0.5 * k (k >= 0) with s <= maxTextSize whose total width
\* and total height, computed after re-wrapping the text at size s, satisfy
\* every constraint that is set (read here for inputs on which some
\* candidate fits).
C2_AutoFitReturnsLargestFitting ==
    (/\ Placed("generateGCode")
     /\ options.autoFit
     /\ options.maxWidth > 0 \/ options.maxHeight > 0
     /\ FittingCandidates # {})
        => /\ placement["generateGCode"].outputSize \in FittingCandidates
           /\ \A s \in FittingCandidates : s <= placement["generateGCode"].outputSize


\* The advance width of a glyph in output units: horizAdvX font units are
\* 0.7 * size / fontRange each, a glyph without horizAdvX is as wide as its
\* strokes, size / referenceHeight per canvas pixel.
ScaledAdvanceWidth(glyph, size) ==
    IF glyph.horizAdvX # Undefined
    THEN glyph.horizAdvX * 7 * (size \div (10 * fontRange))
    ELSE glyph.bounds.width * (size \div referenceHeight)

\* currentX of generateGCode before character c of line l, and after the
\* last character for c = length + 1
GCodeCursor(l, c) ==
    IF c <= Len(placement["generateGCode"].wrappedLines[l])
    THEN placement["generateGCode"].origins[l][c]
    ELSE placement["generateGCode"].endX[l]

\* C11: in the motion-code layout, placing a defined glyph moves the cursor
\* X by exactly (advance width scaled to output units) + charSpacing
\* - kern(char, nextChar), the kerning term being 0 for the last character
\* of a line; and on a line "A A" with no kerning rule the two "A" origins
\* are advance(A) + advance(space) + 2 * charSpacing apart.
C11_AdvanceIsWidthSpacingKerning ==
    Placed("generateGCode") =>
        \A l \in 1..Len(placement["generateGCode"].wrappedLines) :
            /\ \A c \in 1..Len(placement["generateGCode"].wrappedLines[l]) :
                   normalizeCharacter(placement["generateGCode"].wrappedLines[l][c]) \in DOMAIN font
                   => GCodeCursor(l, c + 1) - GCodeCursor(l, c)
                      = ScaledAdvanceWidth(
                            font[normalizeCharacter(placement["generateGCode"].wrappedLines[l][c])],
                            placement["generateGCode"].outputSize)
                        + options.charSpacing
                        - (IF c < Len(placement["generateGCode"].wrappedLines[l])
                           THEN getKerningAdjustment(
                                    <<placement["generateGCode"].wrappedLines[l][c]>>,
                                    <<placement["generateGCode"].wrappedLines[l][c + 1]>>) * Unit
                           ELSE 0)
            /\ (kerning = <<>> /\ placement["generateGCode"].wrappedLines[l] = <<"A", " ", "A">>)
               => GCodeCursor(l, 3) - GCodeCursor(l, 1)
                  = ScaledAdvanceWidth(font["A"], placement["generateGCode"].outputSize)
                    + (IF " " \in DOMAIN font
                       THEN ScaledAdvanceWidth(font[" "], placement["generateGCode"].outputSize)
                       ELSE options.spaceWidth)
                    + 2 * options.charSpacing

\* generateGCode has laid out "AV A" on one line under a kerning rule for
\* the pair A, V: a kerned pair, a space and a last character.
C11_Witness ==
    /\ Placed("generateGCode")
    /\ kerning # <<>>
    /\ placement["generateGCode"].wrappedLines = <<<<"A", "V", " ", "A">>>>
    /\ GCodeCursor(1, 2) - GCodeCursor(1, 1)
           < ScaledAdvanceWidth(font["A"], placement["generateGCode"].outputSize)
             + options.charSpacing

(***************************************************************************)
(* The glyph editor: select a character, draw strokes, drag the origin and *)
(* advance handles, clear, undo, redo.                                     *)
(*                                                                         *)
(* Point coordinates are canvas pixels.  In this section a glyph's         *)
(* horizAdvX counts 1/canvasScale[1] = 1/21 font unit, so that the code's  *)
(* division by scale = 0.42 = 21/50 is exact: a move of one canvas pixel   *)
(* is canvasScale[2] = 50 of these.  A glyph record has the field          *)
(* horizAdvX only when the code's object has the property.                 *)
(***************************************************************************)
canvasWidth == referenceHeight

ZeroBounds == [minX |-> 0, minY |-> 0, maxX |-> 0, maxY |-> 0, width |-> 0, height |-> 0]

\* targetAdvanceCanvas / svgToCanvasScale
defaultAdvance == (canvasWidth \div 2) * canvasScale[2]

EmptyGlyph == [strokes |-> <<>>, bounds |-> ZeroBounds, horizAdvX |-> defaultAdvance]

\* charData?.horizAdvX !== undefined
HasAdvance(f, key) == key \in DOMAIN f /\ "horizAdvX" \in DOMAIN f[key]

\* this.font[key] = glyph
SetGlyph(f, key, glyph) ==
    [c \in DOMAIN f \cup {key} |-> IF c = key THEN glyph ELSE f[c]]

PointsOf(ss) == UNION {{ss[s][p] : p \in DOMAIN ss[s]} : s \in DOMAIN ss}

SetMin(S) == CHOOSE v \in S : \A w \in S : v <= w
SetMax(S) == CHOOSE v \in S : \A w \in S : v >= w

\* Mutant of calculateBounds: the box of the first stroke only.
calculateBoundsFirstStroke(ss) ==
    IF ss = <<>> \/ ss[1] = <<>> THEN ZeroBounds
    ELSE LET xs == {ss[1][p].x : p \in DOMAIN ss[1]}
             ys == {ss[1][p].y : p \in DOMAIN ss[1]}
         IN  [minX |-> SetMin(xs), minY |-> SetMin(ys),
              maxX |-> SetMax(xs), maxY |-> SetMax(ys),
              width |-> SetMax(xs) - SetMin(xs), height |-> SetMax(ys) - SetMin(ys)]

calculateBounds(ss) ==
    IF ss = <<>> \/ PointsOf(ss) = {} THEN ZeroBounds
    ELSE LET xs == {pt.x : pt \in PointsOf(ss)}
             ys == {pt.y : pt \in PointsOf(ss)}
         IN  [minX |-> SetMin(xs), minY |-> SetMin(ys),
              maxX |-> SetMax(xs), maxY |-> SetMax(ys),
              width |-> SetMax(xs) - SetMin(xs), height |-> SetMax(ys) - SetMin(ys)]

\* updateCharacterInFont, as a function of the font, this.currentChar and
\* this.strokes: the glyph is stored under the character as selected.
updateCharacterInFont(f, char, ss) ==
    IF char = NoChar THEN f
    ELSE IF HasAdvance(f, char)
         THEN SetGlyph(f, char, [strokes |-> ss, bounds |-> calculateBounds(ss),
                                 horizAdvX |-> f[char].horizAdvX])
         ELSE SetGlyph(f, char, [strokes |-> ss, bounds |-> calculateBounds(ss)])

historyLimit == 50

\* Mutant of saveToHistory: the snapshots after historyIndex are kept.
saveToHistoryKeepsTail(h, index, ss) ==
    LET pushed == Append(h, ss)
    IN  IF Len(pushed) > historyLimit
        THEN <<Tail(pushed), index>>
        ELSE <<pushed, index + 1>>

\* saveToHistory: the new <<history, historyIndex>>
saveToHistory(h, index, ss) ==
    LET pushed == Append(SubSeq(h, 1, index + 1), ss)
    IN  IF Len(pushed) > historyLimit
        THEN <<Tail(pushed), index>>
        ELSE <<pushed, index + 1>>

\* horizAdvX * scale, in canvas pixels
horizAdvXCanvas(glyph) == glyph.horizAdvX \div canvasScale[2]

getXOffset(f, char) ==
    IF char = NoChar THEN 0
    ELSE IF HasAdvance(f, normalizeCharacter(char))
         THEN (canvasWidth - horizAdvXCanvas(f[normalizeCharacter(char)])) \div 2
         ELSE 0

\* getCanvasCoords
getCanvasCoords(f, char, canvasX, canvasY) == Pt(canvasX - getXOffset(f, char), canvasY)

handleZone == 40
threshold == 15

checkLineHit(f, char, canvasX, canvasY) ==
    IF char = NoChar THEN "null"
    ELSE IF canvasY > handleZone THEN "null"
    ELSE IF Abs(canvasX - getXOffset(f, char)) < threshold THEN "origin"
    ELSE IF /\ HasAdvance(f, normalizeCharacter(char))
            /\ Abs(canvasX - (horizAdvXCanvas(f[normalizeCharacter(char)])
                              + getXOffset(f, char))) < threshold
         THEN "advance"
    ELSE "null"

\* charData?.horizAdvX || 0
AdvanceOrZero(f, key) == IF HasAdvance(f, key) THEN f[key].horizAdvX ELSE 0

\* Bounds of the editor model.
MaxStrokes == 2
MaxStrokePts == 2
MaxHistory == 3
MaxEvents == 11

\* Characters of the grid: a plain one and a curly quote, which
\* normalizeCharacter maps to the apostrophe.
EditorChars == {"A", "u2019"}

\* Pointer positions on the canvas: the default origin handle (a quarter of
\* the width, inside the handle zone), the default advance handle (three
\* quarters of the width, inside the handle zone) and the middle of the
\* drawing area.
Pointers == {<<canvasWidth \div 4, handleZone \div 2>>,
             <<(3 * canvasWidth) \div 4, handleZone \div 2>>,
             <<canvasWidth \div 2, canvasWidth \div 2>>}

WithAdvance(glyph, value) ==
    [strokes |-> glyph.strokes, bounds |-> glyph.bounds, horizAdvX |-> value]

\* stroke.forEach(pt => { pt.x -= deltaX; })
ShiftStrokes(ss, deltaX) ==
    [s \in DOMAIN ss |-> [p \in DOMAIN ss[s] |-> Pt(ss[s][p].x - deltaX, ss[s][p].y)]]

\* An event is handled; the rest of the program is left alone.
editorFrame ==
    /\ events < MaxEvents
    /\ events' = events + 1
    /\ UNCHANGED <<rounding, simplified, arcVars, kernVars,
                   text, options, layoutRounding, placement, machining, generatedGCode,
                   downloads, statusVars, listenerVars>>

selectCharacter(char) ==
    LET saved == IF currentChar # NoChar /\ Len(strokes) > 0
                 THEN updateCharacterInFont(font, currentChar, strokes)
                 ELSE font
        key == normalizeCharacter(char)
        loaded == IF key \in DOMAIN saved THEN saved[key].strokes ELSE <<>>
    IN  /\ currentChar' = char
        /\ strokes' = loaded
        /\ font' = IF key \in DOMAIN saved THEN saved ELSE SetGlyph(saved, key, EmptyGlyph)
        /\ history' = <<loaded>>
        /\ historyIndex' = 0
        /\ UNCHANGED <<currentStroke, isDrawing, drag>>
        /\ editorFrame

startDrawing(canvasX, canvasY) ==
    /\ currentChar # NoChar
    /\ LET lineHit == checkLineHit(font, currentChar, canvasX, canvasY)
       IN  IF lineHit # "null"
           THEN /\ drag' = [isDraggingLine |-> TRUE,
                            dragLineType |-> lineHit,
                            dragStartX |-> canvasX,
                            dragLineStartValue |->
                                IF lineHit = "origin" THEN 0
                                ELSE AdvanceOrZero(font, normalizeCharacter(currentChar))]
                /\ UNCHANGED <<isDrawing, currentStroke>>
           ELSE /\ isDrawing' = TRUE
                /\ currentStroke' = <<getCanvasCoords(font, currentChar, canvasX, canvasY)>>
                /\ UNCHANGED drag
    /\ UNCHANGED <<currentChar, strokes, history, historyIndex, font>>
    /\ editorFrame

\* draw, the branch dragLineType === 'origin'
dragOrigin(canvasX) ==
    LET deltaX == canvasX - drag.dragStartX
        key == normalizeCharacter(currentChar)
        moved == ShiftStrokes(strokes, deltaX)
        newAdvance == AdvanceOrZero(font, key) - deltaX * canvasScale[2]
    IN  /\ strokes' = moved
        /\ font' = IF key \in DOMAIN font
                   THEN updateCharacterInFont(
                            SetGlyph(font, key, WithAdvance(font[key], newAdvance)),
                            currentChar, moved)
                   ELSE font
        /\ drag' = [drag EXCEPT !.dragStartX = canvasX]

\* draw, the branch dragLineType === 'advance'
dragAdvance(canvasX) ==
    LET deltaX == canvasX - drag.dragStartX
        key == normalizeCharacter(currentChar)
        newAdvance == drag.dragLineStartValue + deltaX * canvasScale[2]
    IN  /\ font' = IF key \in DOMAIN font /\ newAdvance > 0
                   THEN updateCharacterInFont(
                            SetGlyph(font, key, WithAdvance(font[key], newAdvance)),
                            currentChar, strokes)
                   ELSE font
        /\ UNCHANGED <<strokes, drag>>

draw(canvasX, canvasY) ==
    /\ IF drag.isDraggingLine
       THEN /\ IF drag.dragLineType = "origin" THEN dragOrigin(canvasX)
               ELSE IF drag.dragLineType = "advance" THEN dragAdvance(canvasX)
               ELSE UNCHANGED <<strokes, font, drag>>
            /\ UNCHANGED currentStroke
       ELSE /\ isDrawing
            /\ currentStroke # <<>>
            /\ Len(currentStroke) < MaxStrokePts
            /\ currentStroke' = Append(currentStroke,
                                       getCanvasCoords(font, currentChar, canvasX, canvasY))
            /\ UNCHANGED <<strokes, font, drag>>
    /\ UNCHANGED <<currentChar, history, historyIndex, isDrawing>>
    /\ editorFrame

\* The histories followed further: the short ones, and the ones one
\* snapshot from the limit or at it.
HistoryInBounds == historyIndex + 1 < MaxHistory \/ Len(history) >= historyLimit - 1

stopDrawing(tolerance) ==
    /\ HistoryInBounds
    /\ IF drag.isDraggingLine
       THEN /\ drag' = [drag EXCEPT !.isDraggingLine = FALSE, !.dragLineType = "null"]
            /\ history' = saveToHistory(history, historyIndex, strokes)[1]
            /\ historyIndex' = saveToHistory(history, historyIndex, strokes)[2]
            /\ UNCHANGED <<isDrawing, currentStroke, strokes, font>>
       ELSE /\ isDrawing
            /\ currentStroke # <<>>
            /\ Len(strokes) < MaxStrokes
            /\ isDrawing' = FALSE
            /\ currentStroke' = <<>>
            /\ IF Len(currentStroke) > 1
               THEN LET pushed == Append(strokes, simplifyPath(currentStroke, tolerance))
                    IN  /\ strokes' = pushed
                        /\ history' = saveToHistory(history, historyIndex, pushed)[1]
                        /\ historyIndex' = saveToHistory(history, historyIndex, pushed)[2]
                        /\ font' = updateCharacterInFont(font, currentChar, pushed)
               ELSE UNCHANGED <<strokes, history, historyIndex, font>>
            /\ UNCHANGED drag
    /\ UNCHANGED currentChar
    /\ editorFrame

clearCharacter ==
    /\ strokes' = <<>>
    /\ history' = <<>>
    /\ historyIndex' = -1
    /\ font' = IF currentChar # NoChar
               THEN SetGlyph(font, normalizeCharacter(currentChar), EmptyGlyph)
               ELSE font
    /\ UNCHANGED <<currentChar, currentStroke, isDrawing, drag>>
    /\ editorFrame

\* clearCanvas: the working strokes are emptied and the empty list is saved
\* as a snapshot; the font is not touched.
clearCanvas ==
    /\ HistoryInBounds
    /\ strokes' = <<>>
    /\ history' = saveToHistory(history, historyIndex, <<>>)[1]
    /\ historyIndex' = saveToHistory(history, historyIndex, <<>>)[2]
    /\ UNCHANGED <<currentChar, currentStroke, isDrawing, drag, font>>
    /\ editorFrame

undo ==
    /\ historyIndex > 0
    /\ historyIndex' = historyIndex - 1
    /\ strokes' = history[historyIndex]
    /\ font' = updateCharacterInFont(font, currentChar, history[historyIndex])
    /\ UNCHANGED <<currentChar, history, currentStroke, isDrawing, drag>>
    /\ editorFrame

redo ==
    /\ historyIndex < Len(history) - 1
    /\ historyIndex' = historyIndex + 1
    /\ strokes' = history[historyIndex + 2]
    /\ font' = updateCharacterInFont(font, currentChar, history[historyIndex + 2])
    /\ UNCHANGED <<currentChar, history, currentStroke, isDrawing, drag>>
    /\ editorFrame

(***************************************************************************)
(* Specification SpecEditor: the editor starts with an empty font and no   *)
(* character selected, and takes pointer and button events.                *)
(***************************************************************************)
InitEditor ==
    /\ EditorIdle
    /\ SimplifyIdle
    /\ StatusIdle
    /\ ListenersIdle
    /\ ArcsIdle
    /\ KerningIdle
    /\ LayoutIdle

NextEditor ==
    \/ \E char \in EditorChars : selectCharacter(char)
    \/ \E pointer \in Pointers : startDrawing(pointer[1], pointer[2])
    \/ \E pointer \in Pointers : draw(pointer[1], pointer[2])
    \/ \E tolerance \in Tolerances : stopDrawing(tolerance)
    \/ clearCharacter
    \/ undo
    \/ redo

SpecEditor == InitEditor /\ [][NextEditor]_vars

\* C12: after any sequence of editor operations every glyph's advance width
\* (horizAdvX), when defined, is greater than 0: no operation stores a value
\* that is 0 or negative.
C12_AdvanceWidthStaysPositive ==
    \A key \in DOMAIN font : HasAdvance(font, key) => font[key].horizAdvX > 0

\* b is the bounding box of the points of the strokes ss (all zero when
\* there is no point).
IsBoundingBox(b, ss) ==
    IF PointsOf(ss) = {} THEN b = ZeroBounds
    ELSE /\ \A pt \in PointsOf(ss) : b.minX <= pt.x /\ pt.x <= b.maxX
                                      /\ b.minY <= pt.y /\ pt.y <= b.maxY
         /\ \E pt \in PointsOf(ss) : pt.x = b.minX
         /\ \E pt \in PointsOf(ss) : pt.x = b.maxX
         /\ \E pt \in PointsOf(ss) : pt.y = b.minY
         /\ \E pt \in PointsOf(ss) : pt.y = b.maxY
         /\ b.width = b.maxX - b.minX
         /\ b.height = b.maxY - b.minY

\* The steps in which updateCharacterInFont is all that touches the font:
\* undo and redo (the history index moves within the same history) and the
\* end of a stroke gesture (a stroke is appended).
StoresWorkingStrokes ==
    \/ historyIndex' # historyIndex /\ history' = history
    \/ isDrawing /\ ~isDrawing' /\ Len(strokes') = Len(strokes) + 1

GCodeGlyphs ==
    [c \in {"A", "O", "I"} |->
        CASE c = "A" -> Glyphs["A"]
          [] c = "O" -> [horizAdvX |-> 10, bounds |-> [minX |-> 0, width |-> 4, height |-> 4],
                         strokes |-> <<CircleWalk(1, 1, 6)>>]
          [] c = "I" -> [horizAdvX |-> 300, bounds |-> [minX |-> 100, width |-> 0, height |-> 200],
                         strokes |-> <<<<Pt(100, 100), Pt(100, 100), Pt(100, 100)>>,
                                       <<Pt(100, 100), Pt(100, 300), Pt(100, 300)>>>>]]

GCodeTexts == {<<"A">>, <<"O", "I">>, <<"I", "\n", "A", "O">>, <<>>}

MachiningSets ==
    [feedRate : {300, 1000}, plungeRate : {300, 1000}, safeZ : {5}, engraveDepth : {-1},
     fixedTieUp : BOOLEAN]

GCodeOptionSets ==
    [outputSize : {3 * Unit, 4 * Unit},
     charSpacing : {0, Unit},
     spaceWidth : {Unit},
     lineGap : {Unit},
     maxWidth : {0},
     maxHeight : {0},
     autoFit : {FALSE},
     maxTextSize : {LargestSize * Unit}]

InitGCode ==
    /\ SimplifyIdle
    /\ StatusIdle
    /\ ListenersIdle
    /\ ArcsIdle
    /\ KerningIdle
    /\ EditorIdle
    /\ text \in GCodeTexts
    /\ font = GCodeGlyphs
    /\ options \in GCodeOptionSets
    /\ layoutRounding = [wrapTieOver |-> FALSE, fitTieOver |-> FALSE]
    /\ placement = [e \in Exporters |-> NoPlacement]
    /\ machining \in MachiningSets
    /\ generatedGCode = <<>>
    /\ downloads = {}

NextGCode == generateGCode

SpecGCode == InitGCode /\ [][NextGCode]_vars

\* The word w (Z or F) in force at line k of the program: the last one
\* given on lines 1..k, <<>> when none was given.
ModalWord(program, k, w) ==
    LET given == {j \in 1..k : program[j][w] # <<>>}
    IN  IF given = {} THEN <<>> ELSE program[SetMax(given)][w]

HasXY(line) == line.X # <<>> \/ line.Y # <<>>
IsRapidXY(line) == line.cmd = "G0" /\ HasXY(line)
IsCutXY(line) == line.cmd \in {"G1", "G2", "G3"} /\ HasXY(line)
IsPlunge(line) == line.cmd = "G1" /\ line.Z = <<machining.engraveDepth>>

\* C14: in the emitted program, with Z tracked line by line, every rapid XY
\* travel happens at safeZ, every cutting XY move at engraveDepth, between
\* a cutting move and the next rapid XY travel the tool is lifted to safeZ,
\* and the program ends at safeZ.
C14_RapidsAtSafeZCutsAtDepth ==
    generatedGCode # <<>> =>
        /\ \A k \in 1..Len(generatedGCode) :
               /\ IsRapidXY(generatedGCode[k])
                      => ModalWord(generatedGCode, k, "Z") = <<machining.safeZ>>
               /\ IsCutXY(generatedGCode[k])
                      => ModalWord(generatedGCode, k, "Z") = <<machining.engraveDepth>>
        /\ \A k \in 1..Len(generatedGCode) : \A n \in (k + 1)..Len(generatedGCode) :
               (IsCutXY(generatedGCode[k]) /\ IsRapidXY(generatedGCode[n]))
                   => \E j \in (k + 1)..(n - 1) :
                          /\ generatedGCode[j].cmd = "G0"
                          /\ generatedGCode[j].Z = <<machining.safeZ>>
        /\ ModalWord(generatedGCode, Len(generatedGCode), "Z") = <<machining.safeZ>>

\* A program with straight cuts, an arc, and two strokes in one character.
C14_Witness ==
    /\ generatedGCode # <<>>
    /\ \E k \in 1..Len(generatedGCode) : generatedGCode[k].cmd \in {"G2", "G3"}
    /\ \E k \in 1..Len(generatedGCode) : generatedGCode[k].cmd = "G1" /\ HasXY(generatedGCode[k])
    /\ Cardinality({k \in 1..Len(generatedGCode) : IsRapidXY(generatedGCode[k])}) >= 4

\* C15: replaying the program with a modal F, every cutting XY move runs at
\* feedRate and every plunge at plungeRate, whatever the two rates are
\* (equal ones included).
C15_ModalFeedIsIntended ==
    \A k \in 1..Len(generatedGCode) :
        /\ IsCutXY(generatedGCode[k])
               => ModalWord(generatedGCode, k, "F") = <<machining.feedRate>>
        /\ IsPlunge(generatedGCode[k])
               => ModalWord(generatedGCode, k, "F") = <<machining.plungeRate>>

\* A program for a text with "I", whose repeated points give lines that the
\* duplicate filter drops, under different rates: some cutting moves carry
\* the F word and others leave it out.
C15_Witness ==
    /\ generatedGCode # <<>>
    /\ machining.feedRate # machining.plungeRate
    /\ \E c \in 1..Len(text) : text[c] = "I"
    /\ \E k \in 1..Len(generatedGCode) :
           IsCutXY(generatedGCode[k]) /\ generatedGCode[k].F = <<>>
    /\ \E k \in 1..Len(generatedGCode) :
           IsCutXY(generatedGCode[k]) /\ generatedGCode[k].F = <<machining.feedRate>>
    /\ \E k \in 1..Len(generatedGCode) :
           IsPlunge(generatedGCode[k]) /\ generatedGCode[k].F = <<machining.plungeRate>>


(***************************************************************************)
(* Specification SpecWrap: generateGCode is run on texts of several words  *)
(* under maximum widths that a line of two words fits, that it equals,     *)
(* that one word fits, and that no word fits.                              *)
(***************************************************************************)
WrapTexts == {<<"A", " ", "A", " ", "A">>,
              <<"A", "V", " ", "A", " ", "A">>,
              <<"A", " ", "A", "V", " ", "A">>,
              <<"A", " ", "A", "\n", "A", "V">>,
              <<"A">>}

\* The width of "A A" at size 3 without character spacing in a font without
\* a space glyph: twice the advance of "A" and the space width.
TwoWordWidth == 2 * AdvanceTimes(Glyphs["A"], ScaleOf(3 * Unit)) + Unit

WrapOptionSets ==
    [outputSize : {3 * Unit},
     charSpacing : {0, Unit},
     spaceWidth : {Unit},
     lineGap : {Unit},
     maxWidth : {Unit, 2 * Unit, TwoWordWidth, 4 * Unit},
     maxHeight : {0},
     autoFit : BOOLEAN,
     maxTextSize : {LargestSize * Unit}]

InitWrap ==
    /\ SimplifyIdle
    /\ StatusIdle
    /\ ListenersIdle
    /\ ArcsIdle
    /\ KerningIdle
    /\ EditorIdle
    /\ text \in WrapTexts
    /\ font \in Fonts
    /\ options \in WrapOptionSets
    /\ layoutRounding \in [wrapTieOver : BOOLEAN, fitTieOver : BOOLEAN]
    /\ placement = [e \in Exporters |-> NoPlacement]
    /\ machining = DefaultMachining
    /\ generatedGCode = <<>>
    /\ downloads = {}

NextWrap == generateGCode

SpecWrap == InitWrap /\ [][NextWrap]_vars

\* The words of a line, and the width the wrap measures for words joined
\* by single spaces: the widths of the words and one inter-word space
\* (space width + character spacing) between neighbours.
WordsOf(line) == Split(line, " ")

JoinedWidth(words, size) ==
    SumSeq([k \in 1..Len(words) |-> wordWidth(words[k], TRUE, size)])
    + (Len(words) - 1) * spaceWidthTotal(size)

MeasuredWidth(line, size) == JoinedWidth(WordsOf(line), size)

\* The lines are a greedy wrap of the words of inputLine at the given size.
GreedyWrap(lines, inputLine, size) ==
    /\ Concat([k \in 1..Len(lines) |-> WordsOf(lines[k])], 1) = WordsOf(inputLine)
    /\ \A k \in 1..Len(lines) : \A n \in 2..Len(WordsOf(lines[k])) :
           ~Exceeds(JoinedWidth(SubSeq(WordsOf(lines[k]), 1, n), size),
                    options.maxWidth, layoutRounding.wrapTieOver)
    /\ \A k \in 1..(Len(lines) - 1) :
           Exceeds(MeasuredWidth(lines[k], size) + spaceWidthTotal(size)
                       + wordWidth(WordsOf(lines[k + 1])[1], TRUE, size),
                   options.maxWidth, layoutRounding.wrapTieOver)
    /\ \A k \in 1..Len(lines) :
           Len(WordsOf(lines[k])) > 1 => MeasuredWidth(lines[k], size) <= options.maxWidth
    /\ \A k \in 1..Len(lines) : \A n \in 1..Len(WordsOf(lines[k])) :
           wordWidth(WordsOf(lines[k])[n], TRUE, size) > options.maxWidth
               => Len(WordsOf(lines[k])) = 1

\* The output lines fall into consecutive groups, one per input line, each
\* the greedy wrap of its input line.
GreedyWrapOfText(lines, size) ==
    \E cut \in [0..Len(inputLines) -> 0..Len(lines)] :
        /\ cut[0] = 0
        /\ cut[Len(inputLines)] = Len(lines)
        /\ \A j \in 1..Len(inputLines) :
               /\ cut[j - 1] < cut[j]
               /\ GreedyWrap(SubSeq(lines, cut[j - 1] + 1, cut[j]), inputLines[j], size)

\* C16: with maxWidth > 0 the lines generateGCode lays out are a greedy
\* wrap: a line break comes before a word exactly when the word and one
\* inter-word space appended to the non-empty current line would exceed
\* maxWidth, every line of more than one word measures at most maxWidth,
\* and a word wider than maxWidth is alone on its line, unsplit.
C16_WrapIsGreedy ==
    (Placed("generateGCode") /\ options.maxWidth > 0) =>
        GreedyWrapOfText(placement["generateGCode"].wrappedLines,
                         placement["generateGCode"].outputSize)

(***************************************************************************)
(* Specification SpecWrapSpaces: generateGCode is run on texts with        *)
(* leading, trailing and repeated spaces and with blank lines.             *)
(***************************************************************************)
SpaceTexts == {<<" ", "A">>,
               <<"A", " ">>,
               <<"A", " ", " ", "A">>,
               <<"A", " ", "A">>,
               <<"A", "\n", "\n", "A">>}

InitWrapSpaces ==
    /\ SimplifyIdle
    /\ StatusIdle
    /\ ListenersIdle
    /\ ArcsIdle
    /\ KerningIdle
    /\ EditorIdle
    /\ text \in SpaceTexts
    /\ font \in Fonts
    /\ options \in WrapOptionSets
    /\ layoutRounding \in [wrapTieOver : BOOLEAN, fitTieOver : BOOLEAN]
    /\ placement = [e \in Exporters |-> NoPlacement]
    /\ machining = DefaultMachining
    /\ generatedGCode = <<>>
    /\ downloads = {}

SpecWrapSpaces == InitWrapSpaces /\ [][NextWrap]_vars

\* lines.join(' ')
RECURSIVE JoinWithSpaces(_)
JoinWithSpaces(lines) ==
    IF Len(lines) = 0 THEN <<>>
    ELSE IF Len(lines) = 1 THEN lines[1]
    ELSE lines[1] \o <<" ">> \o JoinWithSpaces(Tail(lines))

\* The lines are the input line with some of its spaces turned into line
\* breaks; a line that fits, and a blank line, is the one output line.
BrokenAtSpacesOnly(lines, inputLine, size) ==
    /\ JoinWithSpaces(lines) = inputLine
    /\ ~Exceeds(MeasuredWidth(inputLine, size), options.maxWidth,
                layoutRounding.wrapTieOver) => lines = <<inputLine>>
    /\ inputLine = <<>> => lines = << <<>> >>

\* C26: word wrap only turns inter-word spaces into line breaks: the
\* output lines fall into consecutive groups, one per input line, and the
\* lines of a group joined with single spaces are the input line, leading,
\* trailing and repeated spaces included; an input line that fits within
\* maxWidth is output unchanged and a blank input line is one empty line.
C26_WrapOnlyBreaksAtSpaces ==
    (Placed("generateGCode") /\ options.maxWidth > 0 /\ ~options.autoFit) =>
        \E cut \in [0..Len(inputLines) -> 0..Len(placement["generateGCode"].wrappedLines)] :
            /\ cut[0] = 0
            /\ cut[Len(inputLines)] = Len(placement["generateGCode"].wrappedLines)
            /\ \A j \in 1..Len(inputLines) :
                   /\ cut[j - 1] < cut[j]
                   /\ BrokenAtSpacesOnly(
                          SubSeq(placement["generateGCode"].wrappedLines,
                                 cut[j - 1] + 1, cut[j]),
                          inputLines[j], placement["generateGCode"].outputSize)

(***************************************************************************)
(* The size auto-fit settles on.                                           *)
(***************************************************************************)
\* Auto-fit ran in the exporter's last run: the box is ticked and a maximum
\* width or height is set.
AutoFitRan(e) ==
    /\ Placed(e)
    /\ options.autoFit
    /\ options.maxWidth > 0 \/ options.maxHeight > 0

\* C17: the effective output size produced by auto-fit never exceeds
\* maxTextSize, whatever the configured starting outputSize is, a starting
\* size larger than maxTextSize included.
C17_AutoFitSizeAtMostMaxTextSize ==
    \A e \in Exporters :
        AutoFitRan(e) => placement[e].outputSize <= options.maxTextSize

(***************************************************************************)
(* The dimensions calculateDimensions computes, as a function of the       *)
(* candidate size.                                                         *)
(***************************************************************************)
\* calculateDimensions of generateGCode at every candidate of the search.
DimensionsAtCandidates == [s \in Candidates |-> calculateDimensions("generateGCode", s)]

\* The width and the height never shrink from a candidate to a larger one.
NeverShrinks(dims) ==
    \A s1 \in DOMAIN dims, s2 \in DOMAIN dims :
        s1 < s2 => /\ dims[s2].width >= dims[s1].width
                   /\ dims[s2].height >= dims[s1].height

\* The height never shrinks from a candidate to a larger one, and the width
\* never shrinks between two candidates at which the re-wrap gives the same
\* lines.
NeverShrinksUnlessRewrapped(dims) ==
    \A s1 \in DOMAIN dims, s2 \in DOMAIN dims :
        s1 < s2 => /\ dims[s2].height >= dims[s1].height
                   /\ dims[s2].wrappedLines = dims[s1].wrappedLines
                          => dims[s2].width >= dims[s1].width

\* C18 as stated: the dimensions auto-fit computes are monotone in the
\* candidate size: for the same text, font and options and candidate sizes
\* s1 < s2, the total width computed at s2 is >= the total width at s1 and
\* the total height at s2 is >= the total height at s1, each computed after
\* re-running word-wrap at that size.
C18_DimensionsMonotone ==
    AutoFitRan("generateGCode") => NeverShrinks(DimensionsAtCandidates)

\* C18 as the code has it: for candidate sizes s1 < s2 the total height at
\* s2 is >= the total height at s1, and the total width at s2 is >= the
\* total width at s1 when the re-wrap gives the same lines at both sizes; a
\* re-wrap into more lines may make the widest line narrower.
C18_HeightMonotoneWidthPerWrap ==
    AutoFitRan("generateGCode") => NeverShrinksUnlessRewrapped(DimensionsAtCandidates)

\* Auto-fit ran on a text whose re-wrap changes between two candidates, and
\* the widest line is narrower at the larger one.
C18_Witness ==
    /\ AutoFitRan("generateGCode")
    /\ \E s1 \in Candidates, s2 \in Candidates :
           /\ s1 < s2
           /\ calculateDimensions("generateGCode", s2).wrappedLines
                  # calculateDimensions("generateGCode", s1).wrappedLines
           /\ calculateDimensions("generateGCode", s2).width
                  < calculateDimensions("generateGCode", s1).width

(***************************************************************************)
(* Specification SpecExport: a text that may be empty and a font that may  *)
(* have no glyph are in place, and the export operations of the            *)
(* text-to-GCode tab and the font export are run in any order.             *)
(***************************************************************************)
ExportTexts == {<<>>, <<"A">>, <<"A", " ", "A">>}

ExportFonts == {[c \in {} |-> Glyphs["A"]], [c \in {"A"} |-> Glyphs[c]]}

ExportOptionSets ==
    [outputSize : {3 * Unit},
     charSpacing : {0},
     spaceWidth : {Unit},
     lineGap : {Unit},
     maxWidth : {0, 4 * Unit},
     maxHeight : {0},
     autoFit : BOOLEAN,
     maxTextSize : {4 * Unit}]

InitExport ==
    /\ SimplifyIdle
    /\ StatusIdle
    /\ ListenersIdle
    /\ ArcsIdle
    /\ KerningIdle
    /\ text \in ExportTexts
    /\ font \in ExportFonts
    /\ options \in ExportOptionSets
    /\ layoutRounding = [wrapTieOver |-> FALSE, fitTieOver |-> FALSE]
    /\ placement = [e \in Exporters |-> NoPlacement]
    /\ machining = DefaultMachining
    /\ generatedGCode = <<>>
    /\ downloads = {}
    /\ EditorIdle

NextExport ==
    \/ generateGCode
    \/ downloadGCode
    \/ exportImage
    \/ exportSVG
    \/ exportDXF
    \/ exportSVGFont

SpecExport == InitExport /\ [][NextExport]_vars

\* The files of the four exports of a text: the image, the drawing, the
\* polylines and the motion program.
TextExportFiles ==
    {fileName(e) : e \in {"exportImage", "exportSVG", "exportDXF", "downloadGCode"}}

\* C19: every export operation (motion code, raster image, vector drawing,
\* CAD polyline) invoked with empty input text or with a font that has no
\* glyphs aborts: no step taken in such a state produces a file or changes
\* generatedGCode.
C19_EmptyInputAborts ==
    [][(text = <<>> \/ DOMAIN font = {})
           => /\ generatedGCode' = generatedGCode
              /\ downloads' \cap TextExportFiles = downloads \cap TextExportFiles]_vars

(***************************************************************************)
(* Import of an SVG font.  A file is its glyph elements and its hkern      *)
(* elements; an attribute the element does not carry, or carries empty, is *)
(* <<>>, a numeric attribute that is there is <<parseFloat of its text>>.  *)
(* The files have no font-face element, so the metrics are the default     *)
(* ones, and their glyphs have no path data.                               *)
(***************************************************************************)
\* parseFloat(hkern.getAttribute('k') || '0')
hkernK(hkern) == IF hkern.k = <<>> THEN 0 ELSE hkern.k[1]

\* k / baseScale, baseScale = canvasHeight * 0.7 / fontRange
kValue(k) == IF k = NaN THEN NaN ELSE (k * 10 * fontRange) \div (referenceHeight * 7)

\* hkerns.forEach from element n on: what is pushed on importedKerning
RECURSIVE importedKerningFrom(_, _)
importedKerningFrom(hkerns, n) ==
    IF n > Len(hkerns) THEN <<>>
    ELSE (IF hkerns[n].u1 # <<>> /\ hkerns[n].u2 # <<>>
          THEN <<[type |-> "unicode", k |-> kValue(hkernK(hkerns[n])),
                  u1 |-> hkerns[n].u1, u2 |-> hkerns[n].u2]>>
          ELSE IF hkerns[n].g1 # <<>> /\ hkerns[n].g2 # <<>>
          THEN <<[type |-> "glyph", k |-> kValue(hkernK(hkerns[n])),
                  g1 |-> hkerns[n].g1, g2 |-> hkerns[n].g2]>>
          ELSE <<>>)
         \o importedKerningFrom(hkerns, n + 1)

\* glyphs.forEach: the glyphs with a unicode attribute, without strokes; of
\* two glyphs with the same unicode the later one stays.
importedFont(glyphs) ==
    [c \in {glyphs[n].unicode : n \in {m \in 1..Len(glyphs) : glyphs[m].unicode # ""}} |->
        [strokes |-> <<>>,
         bounds |-> ZeroBounds,
         horizAdvX |-> glyphs[CHOOSE n \in 1..Len(glyphs) :
                                  /\ glyphs[n].unicode = c
                                  /\ \A m \in (n + 1)..Len(glyphs) :
                                         glyphs[m].unicode # c].horizAdvX]]

\* reader.onload of importSVGFont: a file without a glyph is refused with
\* an alert, any other replaces the font and the kerning rules.
importSVGFont(file) ==
    /\ IF DOMAIN importedFont(file.glyphs) = {}
       THEN UNCHANGED <<font, kerning, storedKerning>>
       ELSE /\ font' = importedFont(file.glyphs)
            /\ kerning' = importedKerningFrom(file.hkerns, 1)
            /\ storedKerning' = saveToLocalStorage(kerning')
    /\ kernQuery' = NoQuery
    /\ UNCHANGED <<text, options, layoutRounding, placement, machining, generatedGCode,
                   downloads>>
    /\ UNCHANGED <<simplifyVars, arcVars, editorVars, statusVars, listenerVars>>

(***************************************************************************)
(* Specification SpecKernImport: kerning rules come from the kerning form  *)
(* and from imported SVG fonts, and are removed again.                     *)
(***************************************************************************)
\* An hkern element with a numeric k, in font units.
Hkern(u1, u2, g1, g2, k) == [u1 |-> u1, u2 |-> u2, g1 |-> g1, g2 |-> g2, k |-> k]

SpaceGlyph == [unicode |-> " ", horizAdvX |-> 300]

\* A font with one good rule; one whose k is not a number; one with a rule
\* that lacks a selector and a glyph-name rule without k; one without glyphs.
FontFiles ==
    {[glyphs |-> <<SpaceGlyph>>,
      hkerns |-> <<Hkern(<<"A">>, <<"V">>, <<>>, <<>>, <<21>>)>>],
     [glyphs |-> <<SpaceGlyph>>,
      hkerns |-> <<Hkern(<<"A">>, <<"V">>, <<>>, <<>>, <<NaN>>)>>],
     [glyphs |-> <<SpaceGlyph>>,
      hkerns |-> <<Hkern(<<>>, <<"V">>, <<>>, <<>>, <<21>>),
                   Hkern(<<>>, <<>>, <<"A">>, <<"V">>, <<>>)>>],
     [glyphs |-> <<>>,
      hkerns |-> <<Hkern(<<"A">>, <<"V">>, <<>>, <<>>, <<21>>)>>]}

NextKernImport ==
    \/ \E in1 \in FirstInputs, in2 \in SecondInputs, value \in KernValues :
           addKerning(in1, in2, "unicode", value)
    \/ \E in1 \in GlyphInputs, in2 \in GlyphInputs, value \in KernValues :
           addKerning(in1, in2, "glyph", value)
    \/ \E file \in FontFiles : importSVGFont(file)
    \/ \E index \in 0..(MaxRules - 1) : removeKerning(index)

SpecKernImport == InitKerning /\ [][NextKernImport]_vars

\* C20: a kerning rule with an empty selector or a non-numeric adjustment
\* is rejected at the point of addition and never stored: after any
\* sequence of rule additions (addKerning and SVG-font import) every stored
\* rule has two non-empty selectors and a numeric (non-NaN) adjustment.
C20_StoredRulesAreValid ==
    \A n \in 1..Len(kerning) :
        /\ Selector1(kerning[n]) # <<>>
        /\ Selector2(kerning[n]) # <<>>
        /\ kerning[n].k # NaN

\* this.kerning without the rule at index (0-based)
WithoutRule(rules, index) ==
    [n \in 1..(Len(rules) - 1) |-> IF n <= index THEN rules[n] ELSE rules[n + 1]]

\* C27: removeKerning(index) removes exactly the rule at index, keeps the
\* remaining rules in their order and persists the result: after the call
\* the kerning list saved in storage is the kerning list in memory.
C27_RemovalIsPersisted ==
    [][(\E index \in 0..(MaxRules - 1) : removeKerning(index)) =>
           /\ \E index \in 0..(Len(kerning) - 1) : kerning' = WithoutRule(kerning, index)
           /\ storedKerning' = kerning']_vars

(***************************************************************************)
(* Undo and the history of the editor.                                     *)
(***************************************************************************)
\* The end of a stroke gesture that appends a stroke to the working strokes.
StrokeCompleted == isDrawing /\ ~isDrawing' /\ Len(strokes') = Len(strokes) + 1

\* The strokes stored for the character, none when it has no glyph.
StoredStrokes(f, char) == IF char \in DOMAIN f THEN f[char].strokes ELSE <<>>

\* C21: undo removes the last stroke: whenever a stroke has just been
\* completed for the selected character (in any reachable editor state,
\* right after clearCharacter included), a single undo() has an effect and
\* restores the working strokes and the glyph's stored strokes to their
\* value before that stroke.
C21_UndoRemovesLastStroke ==
    [][StrokeCompleted =>
         /\ historyIndex' > 0
         /\ history'[historyIndex'] = strokes
         /\ StoredStrokes(updateCharacterInFont(font', currentChar', history'[historyIndex']),
                          currentChar')
                = StoredStrokes(font, currentChar)]_vars

\* C22: for every character c that can be selected (those that
\* normalizeCharacter maps to another key, such as curly quotes, included),
\* after selecting c and completing a stroke, the glyph that layout and the
\* exporters look up for c, font[normalizeCharacter(c)], contains that
\* stroke and still carries the advance width it had, the default one
\* assigned at selection if nothing moved it.
C22_LookedUpGlyphHasStroke ==
    [][StrokeCompleted =>
         /\ normalizeCharacter(currentChar) \in DOMAIN font'
         /\ font'[normalizeCharacter(currentChar)].strokes = strokes'
         /\ HasAdvance(font', normalizeCharacter(currentChar))
         /\ HasAdvance(font, normalizeCharacter(currentChar))
                => font'[normalizeCharacter(currentChar)].horizAdvX
                       = font[normalizeCharacter(currentChar)].horizAdvX]_vars

(***************************************************************************)
(* The segment list of detectArcs as a tiling of the stroke.               *)
(***************************************************************************)
\* The stroke points on which a segment starts and ends.
SegmentStart(seg) == IF seg.type = "arc" THEN seg.start ELSE seg.points[1]
SegmentEnd(seg) == IF seg.type = "arc" THEN seg.end ELSE seg.points[Len(seg.points)]

\* C23: the segment list detectArcs builds tiles the stroke in order with no
\* gap: the first segment starts at stroke[0], every later segment starts
\* at the point (and the index) on which the previous segment ended, a Line
\* holds exactly the stroke points of its index range, and when detectArcs
\* returns the last segment ends at the stroke's last point; so no stroke
\* point that is not interior to an Arc is skipped.
C23_SegmentsTileTheStroke ==
    (stroke # <<>> /\ segments # <<>>) =>
        /\ SegmentStart(segments[1]) = stroke[1]
        /\ covered[1].from = 0
        /\ \A k \in 2..Len(segments) :
               /\ SegmentStart(segments[k]) = SegmentEnd(segments[k - 1])
               /\ covered[k].from = covered[k - 1].to
        /\ \A k \in 1..Len(segments) :
               /\ SegmentStart(segments[k]) = stroke[covered[k].from + 1]
               /\ SegmentEnd(segments[k]) = stroke[covered[k].to + 1]
               /\ IsLine(k) => segments[k].points
                                   = SubSeq(stroke, covered[k].from + 1, covered[k].to + 1)
        /\ pc = "done" => /\ SegmentEnd(segments[Len(segments)]) = stroke[Len(stroke)]
                          /\ covered[Len(segments)].to = Len(stroke) - 1

\* detectArcs has returned a list in which an Arc lies between two other
\* segments.
C23_Witness ==
    /\ pc = "done"
    /\ \E k \in 2..(Len(segments) - 1) : IsArc(k) /\ IsLine(k - 1)

(***************************************************************************)
(* Moves of the motion program that go nowhere.                            *)
(***************************************************************************)
\* Line k of the program is a G1 whose X and Y are the X and Y in force
\* after line k - 1.
IsZeroLengthCut(program, k) ==
    /\ program[k].cmd = "G1"
    /\ HasXY(program[k])
    /\ program[k].X = ModalWord(program, k - 1, "X")
    /\ program[k].Y = ModalWord(program, k - 1, "Y")

\* C24: the motion program never contains a zero-length cutting move: no G1
\* is emitted whose XY target equals the XY position reached by the
\* preceding motion lines, for every stroke and every feedRate/plungeRate
\* combination.
C24_NoZeroLengthCut ==
    \A k \in 2..Len(generatedGCode) : ~IsZeroLengthCut(generatedGCode, k)

(***************************************************************************)
(* Specification SpecHistory: the editor with "A" selected and a history   *)
(* one snapshot short of the limit, as left by pressing and releasing the  *)
(* advance handle again and again, takes pointer and button events and     *)
(* calls of clearCanvas.                                                   *)
(***************************************************************************)
\* "A" as selectCharacter creates it.
FreshFont == SetGlyph([c \in {} |-> EmptyGlyph], "A", EmptyGlyph)

\* The advance handle and the middle of the drawing area.
HistoryPointers == {<<(3 * canvasWidth) \div 4, handleZone \div 2>>,
                    <<canvasWidth \div 2, canvasWidth \div 2>>}

InitHistory ==
    /\ SimplifyIdle
    /\ StatusIdle
    /\ ListenersIdle
    /\ ArcsIdle
    /\ KerningIdle
    /\ text = <<>>
    /\ font = FreshFont
    /\ options = [outputSize |-> 0, charSpacing |-> 0, spaceWidth |-> 0, lineGap |-> 0,
                  maxWidth |-> 0, maxHeight |-> 0, autoFit |-> FALSE, maxTextSize |-> 0]
    /\ layoutRounding = [wrapTieOver |-> FALSE, fitTieOver |-> FALSE]
    /\ placement = [e \in Exporters |-> NoPlacement]
    /\ machining = NoMachining
    /\ generatedGCode = <<>>
    /\ downloads = {}
    /\ currentChar = "A"
    /\ strokes = <<>>
    /\ history = [k \in 1..(historyLimit - 1) |-> <<>>]
    /\ historyIndex = historyLimit - 2
    /\ isDrawing = FALSE
    /\ drag = NoDrag
    /\ events = 0

NextHistory ==
    \/ selectCharacter("A")
    \/ \E pointer \in HistoryPointers : startDrawing(pointer[1], pointer[2])
    \/ \E pointer \in HistoryPointers : draw(pointer[1], pointer[2])
    \/ stopDrawing(<<0, 1>>)
    \/ clearCanvas
    \/ clearCharacter
    \/ undo
    \/ redo

SpecHistory == InitHistory /\ [][NextHistory]_vars

\* The steps that save a snapshot: the end of a handle drag, the end of a
\* stroke gesture that appends a stroke, and clearCanvas.
SavesSnapshot ==
    \/ drag.isDraggingLine /\ ~drag'.isDraggingLine
    \/ StrokeCompleted
    \/ clearCanvas

\* The snapshots up to historyIndex followed by the new one, less the oldest
\* when that makes more than n.
KeptAndNew(n) ==
    IF historyIndex + 2 > n
    THEN SubSeq(history, 2, historyIndex + 1) \o <<strokes'>>
    ELSE SubSeq(history, 1, historyIndex + 1) \o <<strokes'>>

\* C25: after any sequence of select, draw, handle-drag, clearCanvas,
\* clearCharacter, undo and redo operations the undo history holds at most
\* 50 snapshots and -1 <= historyIndex <= history.length - 1; a step that
\* moves historyIndex back within the same history starts at an index > 0
\* and one that moves it forward starts before the last index (undo at
\* historyIndex <= 0 and redo at the last index change nothing); and saving
\* a snapshot discards every snapshot after historyIndex and puts the new
\* one, the working strokes, last.
C25_HistoryBounded ==
    /\ [](/\ Len(history) <= 50
          /\ -1 <= historyIndex
          /\ historyIndex <= Len(history) - 1)
    /\ [][/\ (history' = history /\ historyIndex' < historyIndex) => historyIndex > 0
          /\ (history' = history /\ historyIndex' > historyIndex)
                 => historyIndex < Len(history) - 1
          /\ SavesSnapshot => /\ history' = KeptAndNew(50)
                              /\ historyIndex' = Len(history') - 1]_vars

\* The history is full and its two newest snapshots hold a stroke: the
\* newer one was saved on a full history, which dropped the oldest.
C25_Witness ==
    /\ Len(history) = historyLimit
    /\ historyIndex = historyLimit - 1
    /\ history[historyLimit - 1] # <<>>
    /\ history[historyLimit] # <<>>

(***************************************************************************)
(* The status panel of the FluidNC controller (part_001).  A path is the   *)
(* sequence of its characters; a stream message is the machine state it    *)
(* carries, if any, and the percentage and file name of its SD field, if   *)
(* any; percentages are in hundredths.                                     *)
(***************************************************************************)
\* path.replace(/^\/sd/, '')
StripSd(path) ==
    IF Len(path) >= 3 /\ SubSeq(path, 1, 3) = <<"/", "s", "d">>
    THEN SubSeq(path, 4, Len(path))
    ELSE path

\* showStatusPanel(), hideStatusPanel(): the display of the panel and the
\* text of the pause button.
hideStatusPanel(fields) == [fields EXCEPT !.pauseBtn = "Pause"]

\* handleStatusUpdate(content), content a string
handleStatusUpdate(msg) ==
    LET isStatusPanelVisible == statusPanel = "block"
        stateMatch == msg.state # <<>>
        state == msg.state[1]
        hides == stateMatch /\ isRunning /\ state = "Idle" /\ isStatusPanelVisible
        pathAfter == IF hides THEN NoPath ELSE runningFilePath
        fieldsAfterState ==
            IF ~stateMatch THEN statusFields
            ELSE IF hides
            THEN hideStatusPanel([statusFields EXCEPT !.machineState = state])
            ELSE [statusFields EXCEPT !.machineState = state]
        updatesProgress ==
            /\ msg.sd # <<>>
            /\ pathAfter # NoPath
            /\ StripSd(msg.sd[2]) = StripSd(pathAfter)
    IN  /\ isRunning' = IF stateMatch THEN state = "Run" ELSE isRunning
        /\ runningFilePath' = pathAfter
        /\ statusPanel' = IF hides THEN "none" ELSE statusPanel
        /\ statusFields' = IF updatesProgress
                           THEN [fieldsAfterState EXCEPT !.progress = <<msg.sd[1]>>]
                           ELSE fieldsAfterState
        /\ UNCHANGED runPc
        /\ UNCHANGED <<simplifyVars, arcVars, kernVars, layoutVars, editorVars, listenerVars>>

\* runSDFile(file) up to "await this.fluidAPI.runSDFile": the user has
\* confirmed; the Run button is disabled from here on.
runSDFile(file) ==
    /\ runPc = "idle"
    /\ runningFilePath' = file
    /\ statusPanel' = "block"
    /\ runPc' = "awaiting"
    /\ UNCHANGED <<isRunning, statusFields>>
    /\ UNCHANGED <<simplifyVars, arcVars, kernVars, layoutVars, editorVars, listenerVars>>

\* runSDFile after the await: the request has been answered.
runSDFileCompleted ==
    /\ runPc = "awaiting"
    /\ runPc' = "idle"
    /\ UNCHANGED <<statusPanel, isRunning, runningFilePath, statusFields>>
    /\ UNCHANGED <<simplifyVars, arcVars, kernVars, layoutVars, editorVars, listenerVars>>

\* runSDFile, the catch block: the request has failed.
runSDFileFailed ==
    /\ runPc = "awaiting"
    /\ runPc' = "idle"
    /\ statusPanel' = "none"
    /\ statusFields' = hideStatusPanel(statusFields)
    /\ UNCHANGED <<isRunning, runningFilePath>>
    /\ UNCHANGED <<simplifyVars, arcVars, kernVars, layoutVars, editorVars, listenerVars>>

\* togglePauseResume(), a button of the status panel
togglePauseResume ==
    /\ statusPanel = "block"
    /\ statusFields' = [statusFields EXCEPT
                            !.pauseBtn = IF @ = "Pause" THEN "Resume" ELSE "Pause"]
    /\ UNCHANGED <<statusPanel, isRunning, runningFilePath, runPc>>
    /\ UNCHANGED <<simplifyVars, arcVars, kernVars, layoutVars, editorVars, listenerVars>>

(***************************************************************************)
(* Specification SpecStatus: a job file is started from the SD card and    *)
(* the machine streams status reports, with and without an SD field, for   *)
(* the job file and for a macro file.                                      *)
(***************************************************************************)
\* Job files as listed, without and with the /sd prefix, and a macro file.
JobFiles == {<<"/", "j">>, <<"/", "s", "d", "/", "k">>}
MacroFile == <<"/", "m">>

\* FluidNC reports a file with the /sd prefix.
ReportedAs(path) == <<"/", "s", "d">> \o StripSd(path)

MachineStates == {"Idle", "Run", "Hold", "Alarm"}

StatusMessages ==
    [state : {<<>>} \cup {<<st>> : st \in MachineStates},
     sd : {<<>>, <<2500, ReportedAs(MacroFile)>>}
              \cup {<<percent, ReportedAs(file)>> : percent \in {5000, 10000},
                                                     file \in JobFiles}]

InitStatus ==
    /\ SimplifyIdle
    /\ ArcsIdle
    /\ KerningIdle
    /\ LayoutIdle
    /\ EditorIdle
    /\ StatusIdle
    /\ ListenersIdle

NextStatus ==
    \/ \E file \in JobFiles : runSDFile(file)
    \/ runSDFileCompleted
    \/ runSDFileFailed
    \/ togglePauseResume
    \/ \E msg \in StatusMessages : handleStatusUpdate(msg)

SpecStatus == InitStatus /\ [][NextStatus]_vars

\* The machine reports Idle.
ReportsIdle == \E msg \in StatusMessages : msg.state = <<"Idle">> /\ handleStatusUpdate(msg)

\* C28: once the status panel has been shown for a started job, it is
\* hidden when the machine reports Idle, whatever was reported before
\* (Run, Hold and then Idle, or Idle without any Run): a report of Idle
\* that finds the panel shown leaves it hidden and runningFilePath cleared.
C28_IdleHidesThePanel ==
    [][(ReportsIdle /\ statusPanel = "block") =>
           (statusPanel' = "none" /\ runningFilePath' = NoPath)]_vars

(***************************************************************************)
(* The two gestures of the canvas: drawing a stroke and dragging a handle. *)
(***************************************************************************)
\* A pointer-up or pointer-leave event is handled.
PointerReleased == \E tolerance \in Tolerances : stopDrawing(tolerance)

\* A pointer-move event appends a point to the stroke being drawn.
MoveAddsPoint ==
    /\ \E pointer \in Pointers : draw(pointer[1], pointer[2])
    /\ Len(currentStroke') > Len(currentStroke)

\* C29: for every sequence of pointer-down, pointer-move, pointer-up and
\* pointer-leave events isDrawing and isDraggingLine are never both true,
\* and after a pointer-up or pointer-leave both are false, so that a
\* pointer move adds a point only while isDrawing is true and
\* isDraggingLine is not.
C29_OneGestureAtATime ==
    /\ [](~(isDrawing /\ drag.isDraggingLine))
    /\ [][/\ PointerReleased => (~isDrawing' /\ ~drag'.isDraggingLine)
          /\ MoveAddsPoint => (isDrawing /\ ~drag.isDraggingLine)]_vars

(***************************************************************************)
(* The handlers setupCanvas registers.  An event calls every handler       *)
(* registered for it, in turn.                                             *)
(***************************************************************************)
MaxListeners == 4
MaxGesturePts == 5

\* setupCanvas(): one more handler for each canvas event and for resize;
\* the handlers are new arrow functions each time, so none replaces another.
setupCanvas(registered) == [e \in DOMAIN registered |-> registered[e] + 1]

\* A window resize event: every resize handler clears its own timeout and
\* sets it again.
windowResize ==
    /\ resizeTimeouts' = listeners["resize"]
    /\ UNCHANGED listeners
    /\ UNCHANGED <<simplifyVars, arcVars, kernVars, layoutVars, editorVars, statusVars>>

\* A timeout of a resize handler expires: setupCanvas() and render().
resizeTimeout ==
    /\ resizeTimeouts > 0
    /\ listeners["resize"] < MaxListeners
    /\ listeners' = setupCanvas(listeners)
    /\ resizeTimeouts' = resizeTimeouts - 1
    /\ UNCHANGED <<simplifyVars, arcVars, kernVars, layoutVars, editorVars, statusVars>>

\* A mousedown event off the handles: every handler calls startDrawing,
\* and each call starts the stroke afresh at the same point.
mousedown(canvasX, canvasY) ==
    /\ checkLineHit(font, currentChar, canvasX, canvasY) = "null"
    /\ startDrawing(canvasX, canvasY)

\* A mousemove event while a stroke is drawn: every handler calls draw,
\* and each call appends the point.
mousemove(canvasX, canvasY) ==
    /\ ~drag.isDraggingLine
    /\ isDrawing
    /\ currentStroke # <<>>
    /\ Len(currentStroke) + listeners["mousemove"] <= MaxGesturePts
    /\ currentStroke' = currentStroke \o
                        [k \in 1..listeners["mousemove"] |->
                            getCanvasCoords(font, currentChar, canvasX, canvasY)]
    /\ UNCHANGED <<strokes, font, drag>>
    /\ UNCHANGED <<currentChar, history, historyIndex, isDrawing>>
    /\ editorFrame

\* A mouseup event while a stroke is drawn: the first handler's
\* stopDrawing ends the stroke, the others find isDrawing false and return.
mouseup(tolerance) ==
    /\ ~drag.isDraggingLine
    /\ stopDrawing(tolerance)

(***************************************************************************)
(* Specification SpecListeners: the window is resized while strokes are    *)
(* drawn.                                                                  *)
(***************************************************************************)
ListenerPointers == {<<canvasWidth \div 2, canvasWidth \div 2>>,
                     <<canvasWidth \div 3, canvasWidth \div 2>>}

NextListeners ==
    \/ selectCharacter("A")
    \/ windowResize
    \/ resizeTimeout
    \/ \E pointer \in ListenerPointers : mousedown(pointer[1], pointer[2])
    \/ \E pointer \in ListenerPointers : mousemove(pointer[1], pointer[2])
    \/ mouseup(<<0, 1>>)

SpecListeners == InitEditor /\ [][NextListeners]_vars

\* A mousemove event is handled while a stroke is drawn.
PointerMoved == \E pointer \in ListenerPointers : mousemove(pointer[1], pointer[2])

\* C30: after any number of window resize events exactly one handler is
\* registered for each canvas pointer event and exactly one for resize, so
\* each pointer-move event appends exactly one point to the current stroke
\* and each resize schedules exactly one canvas re-setup.
C30_OneHandlerPerEvent ==
    /\ [](\A e \in DOMAIN listeners : listeners[e] = 1)
    /\ [][/\ PointerMoved => Len(currentStroke') = Len(currentStroke) + 1
          /\ windowResize => resizeTimeouts' = 1]_vars

=============================================================================
